---- MODULE Spec2Model ----
(***************************************************************************)
(* Model of the sandbox Store (prefix-addressable registry), of the        *)
(* container creation saga of criContainerdService.CreateContainer, of the *)
(* spec it generates for a container and the security profiles it picks,  *)
(* of streamExecutor.Stream, of the resize goroutine of a session and of     *)
(* the backend manager.                                                    *)
(***************************************************************************)
EXTENDS Integers, Sequences, FiniteSets, TLC

\* ------------------------------------------------------------------ bounds
\* Longest identifier handed to the store.
MaxIDLen == 2
\* Most entities the store holds at once in the model.
MaxStored == 2

\* Characters of identifiers; " " is the one character the index refuses.
Chars == {"a", "b", " "}
\* Payloads telling two entities with the same ID apart.
Metas == {"m1", "m2"}

Strings == UNION {[1..k -> Chars] : k \in 0..MaxIDLen}

None == [ID |-> <<>>, Meta |-> "none"]

\* A Sandbox value: its ID and the rest of it (Metadata, Container, NetNS).
SandboxOf(id, meta) == [ID |-> id, Meta |-> meta]

VARIABLES
    sandboxes,  \* Store.sandboxes: map from full ID to Sandbox
    idIndex,    \* Store.idIndex: the IDs held by the TruncIndex
    ret,        \* the last Store call of the sequential client and what it returned
    lock,       \* Store.lock: the RWMutex's writer and its readers
    pc,         \* where each concurrent caller of the Store stands in its call
    call,       \* the Store call each concurrent caller makes
    res,        \* what that call has returned so far
    store0,     \* the IDs the store held before the concurrent callers started
    nameToKey,  \* containerNameIndex: reserved container name -> container ID
    containers, \* containerStore: map from container ID to container
    containerIndex, \* containerStore: the IDs held by its TruncIndex
    rootDirs,   \* container IDs whose root directory exists
    ios,        \* container IDs whose container IO is open
    engine,     \* container IDs that have a containerd container and snapshot
    checkpoints,\* container IDs whose status checkpoint is on disk
    cpc,        \* where each CreateContainer call stands
    cid,        \* the id each call generated
    cname,      \* the name each call made
    retErr,     \* the call's named result retErr
    defers,     \* the call's deferred functions, last registered first
    undone,     \* the cleanups the call's deferred functions have run, in order
    cleanupErrs,\* the cleanups that returned an error (logged by the call)
    compileInput, \* what generateContainerSpec is called with, and the host it runs on
    generator,  \* the generate.Generator of generateContainerSpec when it returned
    specErr,    \* the error generateContainerSpec returned
    compiled,   \* whether generateContainerSpec has returned
    securityContext, \* config.GetLinux().GetSecurityContext(): the profiles, privileged
    hostApparmorEnabled, \* criContainerdService.apparmorEnabled
    hostSeccompEnabled,  \* criContainerdService.seccompEnabled
    apparmorSpecOpts,\* what generateApparmorSpecOpts returned
    seccompSpecOpts, \* what generateSeccompSpecOpts returned
    specOpts,   \* CreateContainer's list of containerd.SpecOpts
    secPc,      \* where CreateContainer stands in resolving the profiles
    executor,   \* the streamExecutor
    streamOptions,    \* the StreamOptions of the Stream call
    streamPc,   \* where the Stream call stands
    negotiated, \* what spdy.Negotiate returned
    conn,       \* the connection of the Stream call
    streamer,   \* Stream's local variable streamer
    streamed,   \* the handler whose stream method ran
    streamErr,  \* what Stream returned
    resize,     \* the resize channel
    sent,       \* the sizes sent on the resize channel, in order
    resizePc,   \* where handleResizing and its goroutine stand
    size,       \* the goroutine's local variable size
    resized,    \* the sizes resizeFunc was called with, in order
    rtCall,     \* the last call of a method of streamRuntime
    rtRet,      \* what that call returned
    forwarded,  \* the ports c.portForward was called with, in order
    mountConfig,\* the mounts and the security context of the request
    imageVolumes, \* image.Config.Volumes
    volumeMounts, \* CreateContainer's local variable volumeMounts
    containerMounts, \* CreateContainer's local variable mounts
    specMounts, \* the mounts generateContainerSpec is called with
    mountPc,    \* where CreateContainer stands in making its mounts
    active,     \* manager.active: backend type -> the backend running
    mux,        \* manager.mux: whether the mutex is held
    ctxDone,    \* whether manager.ctx is cancelled
    mcall,      \* the GetBackend call of each caller and where it stands
    mret,       \* what each caller's last GetBackend call returned
    made,       \* the number of GetBackend calls made so far
    tasks,      \* the cleanup goroutines GetBackend started
    built       \* the backends the constructors returned, in order

storeVars == <<sandboxes, idIndex>>

createVars == <<nameToKey, containers, containerIndex, rootDirs, ios, engine,
                checkpoints, cpc, cid, cname, retErr, defers, undone, cleanupErrs>>

compileVars == <<compileInput, generator, specErr, compiled>>

securityVars == <<securityContext, hostApparmorEnabled, hostSeccompEnabled, apparmorSpecOpts,
                  seccompSpecOpts, specOpts, secPc>>

streamVars == <<executor, streamOptions, streamPc, negotiated, conn, streamer, streamed, streamErr>>

resizeVars == <<resize, sent, resizePc, size, resized>>

runtimeVars == <<rtCall, rtRet, forwarded>>

mountVars == <<mountConfig, imageVolumes, volumeMounts, containerMounts, specMounts, mountPc>>

managerVars == <<active, mux, ctxDone, mcall, mret, made, tasks, built>>

serviceVars == <<compileVars, securityVars, streamVars, resizeVars, runtimeVars, mountVars,
                 managerVars>>

\* ------------------------------------------------- truncindex.TruncIndex
\* strings.HasPrefix(s, p)
HasPrefix(s, p) == Len(p) <= Len(s) /\ SubSeq(s, 1, Len(p)) = p

\* strings.Contains(id, " ")
ContainsSpace(id) == \E i \in 1..Len(id) : id[i] = " "

\* TruncIndex.Add: the error it returns, "nil" when the id is inserted.
TruncIndexAddErr(idx, id) ==
    IF ContainsSpace(id) THEN "ErrIllegalChar"
    ELSE IF id = <<>> THEN "ErrEmptyPrefix"
    ELSE IF id \in idx THEN "ErrIDExists"
    ELSE "nil"

\* TruncIndex.Add: the index afterwards.
TruncIndexAdd(idx, id) ==
    IF TruncIndexAddErr(idx, id) = "nil" THEN idx \cup {id} ELSE idx

\* TruncIndex.Get: visits every stored id below the prefix s; a second visit
\* is the ambiguous-prefix error, no visit is ErrNotExist.
TruncIndexGet(idx, s) ==
    LET visited == {i \in idx : HasPrefix(i, s)} IN
    IF s = <<>> THEN [id |-> <<>>, err |-> "ErrEmptyPrefix"]
    ELSE IF Cardinality(visited) > 1 THEN [id |-> <<>>, err |-> "ErrAmbiguousPrefix"]
    ELSE IF Cardinality(visited) = 1
         THEN [id |-> CHOOSE i \in visited : TRUE, err |-> "nil"]
         ELSE [id |-> <<>>, err |-> "ErrNotExist"]

\* TruncIndex.Delete: the index afterwards (an unknown id is an error and no change).
TruncIndexDelete(idx, id) == idx \ {id}

\* ------------------------------------------------------------ sandbox.Store
\* delete(m, id) on a Go map
MapDelete(m, id) == [k \in DOMAIN m \ {id} |-> m[k]]

\* m[id] = v on a Go map
MapPut(m, id, v) == [k \in DOMAIN m \cup {id} |-> IF k = id THEN v ELSE m[k]]

\* Store.Add(sb): the error returned.
StoreAddErr(m, idx, sb) ==
    IF sb.ID \in DOMAIN m THEN "ErrAlreadyExist"
    ELSE TruncIndexAddErr(idx, sb.ID)

\* Mutant of StoreAddMap: the presence check is skipped and the entity overwritten.
StoreAddMapOverwrite(m, idx, sb) ==
    IF TruncIndexAddErr(idx \ {sb.ID}, sb.ID) = "nil" THEN MapPut(m, sb.ID, sb) ELSE m

\* Mutant of StoreAddMap: the map is made anew around the entity added.
StoreAddMapAlone(m, idx, sb) ==
    IF sb.ID \in DOMAIN m \/ TruncIndexAddErr(idx, sb.ID) # "nil"
    THEN m ELSE [k \in {sb.ID} |-> sb]

\* Store.Add(sb): the map afterwards.
StoreAddMap(m, idx, sb) ==
    IF StoreAddErr(m, idx, sb) = "nil" THEN MapPut(m, sb.ID, sb) ELSE m

\* Store.Add(sb): the index afterwards.
StoreAddIndex(m, idx, sb) ==
    IF sb.ID \in DOMAIN m THEN idx ELSE TruncIndexAdd(idx, sb.ID)

\* Mutant of StoreGet: the index's ErrNotExist is returned untranslated.
StoreGetUntranslated(m, idx, id) ==
    LET r == TruncIndexGet(idx, id) IN
    IF r.err # "nil" THEN [sb |-> None, err |-> r.err]
    ELSE IF r.id \in DOMAIN m
         THEN [sb |-> m[r.id], err |-> "nil"]
         ELSE [sb |-> None, err |-> "store.ErrNotExist"]

\* Mutant of StoreGet: the map is read with the identifier as given, not with
\* the full ID the index resolved it to.
StoreGetRawKey(m, idx, id) ==
    LET r == TruncIndexGet(idx, id) IN
    IF r.err # "nil"
    THEN [sb |-> None,
          err |-> IF r.err = "ErrNotExist" THEN "store.ErrNotExist" ELSE r.err]
    ELSE IF id \in DOMAIN m
         THEN [sb |-> m[id], err |-> "nil"]
         ELSE [sb |-> None, err |-> "store.ErrNotExist"]

\* Store.Get(id): the (Sandbox, error) pair returned.
StoreGet(m, idx, id) ==
    LET r == TruncIndexGet(idx, id) IN
    IF r.err # "nil"
    THEN [sb |-> None,
          err |-> IF r.err = "ErrNotExist" THEN "store.ErrNotExist" ELSE r.err]
    ELSE IF r.id \in DOMAIN m
         THEN [sb |-> m[r.id], err |-> "nil"]
         ELSE [sb |-> None, err |-> "store.ErrNotExist"]

\* Store.List(): the sandboxes returned (their order is the map's, unspecified).
StoreList(m) == {m[k] : k \in DOMAIN m}

\* Mutant of StoreDeleteMap: the map entry is deleted under the identifier as
\* given, not under the full ID the index resolved it to.
StoreDeleteMapRawKey(m, idx, id) ==
    LET r == TruncIndexGet(idx, id) IN
    IF r.err # "nil" THEN m ELSE MapDelete(m, id)

\* Store.Delete(id): the map afterwards.
StoreDeleteMap(m, idx, id) ==
    LET r == TruncIndexGet(idx, id) IN
    IF r.err # "nil" THEN m ELSE MapDelete(m, r.id)

\* Delete leaves the index as it is.
StoreDeleteIndexKeep(m, idx, id) == idx

\* Store.Delete(id): the index afterwards.
StoreDeleteIndex(m, idx, id) ==
    LET r == TruncIndexGet(idx, id) IN
    IF r.err # "nil" THEN idx ELSE TruncIndexDelete(idx, r.id)

\* ------------------------------------------------ CreateContainer: state
Creators == {"c1", "c2"}

\* Container names makeContainerName can produce for the requests.
Names == {"n1", "n2"}

\* The running sandbox of the requests, and an id no sandbox has.
SandboxID == <<"s">>
SandboxIDs == {SandboxID, <<"x">>}

\* util.GenerateID(): a fresh id for every call.
GenerateID(p) == IF p = "c1" THEN <<"a", "a">> ELSE <<"a", "b">>

\* Registrar.Reserve(name, key): the error returned.
ReserveErr(n2k, name, key) ==
    IF name \in DOMAIN n2k
    THEN IF n2k[name] # key THEN "ErrNameReserved" ELSE "nil"
    ELSE IF \E n \in DOMAIN n2k : n2k[n] = key THEN "ErrKeyReserved"
    ELSE "nil"

\* Registrar.Reserve(name, key): the index afterwards.
ReserveMap(n2k, name, key) ==
    IF ReserveErr(n2k, name, key) = "nil" THEN MapPut(n2k, name, key) ELSE n2k

\* Registrar.ReleaseByName(name): the index afterwards.
ReleaseByName(n2k, name) == MapDelete(n2k, name)

\* err != nil after a step of CreateContainer
Failed(err) == err # "nil"

\* Mutant of ReserveRefused: the error of Reserve is ignored.
ReserveRefusedNever(err) == FALSE

\* err != nil after c.containerNameIndex.Reserve(name, id)
ReserveRefused(err) == err # "nil"

\* Mutant of ShouldCleanup: the deferred function does not look at retErr.
ShouldCleanupAlways(e) == TRUE

\* Mutant of ShouldCleanup: the deferred function never cleans up.
ShouldCleanupNever(e) == FALSE

\* retErr != nil in a deferred function of CreateContainer
ShouldCleanup(e) == e # "nil"

InitNoCreate ==
    /\ nameToKey = <<>>
    /\ containers = <<>>
    /\ containerIndex = {}
    /\ rootDirs = {}
    /\ ios = {}
    /\ engine = {}
    /\ checkpoints = {}
    /\ cpc = [p \in Creators |-> "start"]
    /\ cid = [p \in Creators |-> <<>>]
    /\ cname = [p \in Creators |-> "none"]
    /\ retErr = [p \in Creators |-> "nil"]
    /\ defers = [p \in Creators |-> <<>>]
    /\ undone = [p \in Creators |-> <<>>]
    /\ cleanupErrs = [p \in Creators |-> {}]

\* ---------------------------------------------- concurrent callers of Store
Procs == {"p1", "p2"}

\* Identifiers the concurrent callers use: "a" is also a prefix of "ab".
ConcIDs == {<<"a">>, <<"a", "b">>, <<"b">>}
ConcArgs == ConcIDs \cup {<<>>}

NoCall == [op |-> "none", id |-> <<>>, meta |-> "none"]
NoRes == [sb |-> None, err |-> "nil", list |-> {}, hit |-> <<>>]

Calls ==
    {[op |-> "Add", id |-> i, meta |-> m] : i \in ConcArgs, m \in Metas}
    \cup {[op |-> o, id |-> i, meta |-> "none"] : o \in {"Get", "Delete"}, i \in ConcArgs}
    \cup {[op |-> "List", id |-> <<>>, meta |-> "none"]}

Unlocked == [writer |-> "none", readers |-> {}]

\* Mutant of CanRLock: the reader does not wait for the writer.
CanRLockAlways(l) == TRUE

\* sync.RWMutex.RLock returns: no writer holds the lock.
CanRLock(l) == l.writer = "none"

\* Mutant of CanLock: a writer waits for the readers only, not for a writer.
CanLockIgnoresWriter(l) == l.readers = {}

\* sync.RWMutex.Lock returns: no writer and no reader holds the lock.
CanLock(l) == l.writer = "none" /\ l.readers = {}

concVars == <<lock, pc, call, res, store0>>

\* The stores NewStore and a run of Add calls leave behind.
ReachableStores ==
    UNION {{f \in [ids -> {SandboxOf(i, m) : i \in ConcIDs, m \in Metas}] :
                \A k \in ids : f[k].ID = k} :
              ids \in {x \in SUBSET ConcIDs : Cardinality(x) <= MaxStored}}

InitIdle ==
    /\ lock = Unlocked
    /\ pc = [p \in Procs |-> "idle"]
    /\ call = [p \in Procs |-> NoCall]
    /\ res = [p \in Procs |-> NoRes]
    /\ store0 = {}


\* ------------------------------------------ generateContainerSpec: inputs
\* Most environment variables of the image and most of the request.
MaxEnvs == 2
\* Most entries of a capability add-list and of a drop-list.
MaxCaps == 2
\* Most mounts of a request.
MaxMounts == 2
\* Most devices of a request.
MaxDevices == 1

SeqsUpTo(S, n) == UNION {[1..k -> S] : k \in 0..n}

\* A Go slice that may be nil; nil and the empty slice both have length 0.
NilSlice == [nil |-> TRUE, elems |-> <<>>]
SliceOf(elems) == [nil |-> FALSE, elems |-> elems]

\* runtime.MountPropagation; the last one is a value the switch does not know.
Propagations == {"PROPAGATION_PRIVATE", "PROPAGATION_HOST_TO_CONTAINER",
                 "PROPAGATION_BIDIRECTIONAL", "PROPAGATION_UNKNOWN"}

\* Host paths of the mounts: /sh is on a shared mount, /sl on a slave mount,
\* /pr on a private one, /ln is a symbolic link to /sh, /new and /nomk do
\* not exist (and /nomk cannot be created), /bad cannot be examined, /loop
\* is a symbolic link that cannot be resolved, /nomnt is in no mount table.
HostPaths == {"/sh", "/sl", "/pr", "/ln", "/new", "/nomk", "/bad", "/loop", "/nomnt"}

\* runtime.Mount values of a request: a bidirectional mount of every host
\* path, and mounts of the other propagations.
Mount(h, p, ro) == [ContainerPath |-> "/data", HostPath |-> h, Propagation |-> p, Readonly |-> ro]

Mounts ==
    {Mount(h, "PROPAGATION_BIDIRECTIONAL", FALSE) : h \in HostPaths}
    \cup {Mount(h, "PROPAGATION_HOST_TO_CONTAINER", FALSE) : h \in {"/sh", "/sl", "/pr"}}
    \cup {Mount("/pr", p, FALSE) : p \in Propagations}
    \cup {Mount("/sh", "PROPAGATION_PRIVATE", TRUE)}

\* The mount of the sandbox's hosts file, as generateContainerMounts makes it.
EtcHostsMount ==
    [ContainerPath |-> "/etc/hosts", HostPath |-> "/pr",
     Propagation |-> "PROPAGATION_PRIVATE", Readonly |-> FALSE]

ExtraMountLists == {<<>>, <<EtcHostsMount>>}

\* runtime.Device values of a request: a device, a symbolic link to a
\* device, a dangling link, and a file that is no device.
Devices ==
    {[HostPath |-> h, ContainerPath |-> "/dev/x", Permissions |-> "rwm"] :
        h \in {"/dev/null", "/dev/lnk", "/dev/dangling", "/etc/file"}}

\* What devices.HostDevices() finds on the host; the entry with major and
\* minor number 0 is what the code calls an invalid device.
NullDevice == [Path |-> "/dev/null", Type |-> "c", Major |-> 1, Minor |-> 3]
ZeroDevice == [Path |-> "/dev/zero", Type |-> "c", Major |-> 1, Minor |-> 5]
InvalidDevice == [Path |-> "/dev/fd", Type |-> "c", Major |-> 0, Minor |-> 0]

HostDeviceResults ==
    {[devices |-> l, err |-> "nil"] :
        l \in {<<>>, <<NullDevice>>, <<InvalidDevice>>, <<NullDevice, ZeroDevice>>,
               <<NullDevice, InvalidDevice, ZeroDevice>>}}
    \cup {[devices |-> <<>>, err |-> "ErrHostDevices"]}

\* Entries of a capability add-list or drop-list.
CapStrings == {"ALL", "all", "CHOWN", "kill", "BOGUS"}

NilCapabilities == [nil |-> TRUE, AddCapabilities |-> <<>>, DropCapabilities |-> <<>>]

\* Environment strings of an image: the last one has no "=".
ImageEnvStrings ==
    {<<"A", "=", "1">>, <<"B", "=", "1">>, <<"A", "B", "=", "1">>, <<"A", "=", "=">>, <<"A">>}

\* runtime.KeyValue environment variables of a request.
KeyValues ==
    {[Key |-> <<"A">>, Value |-> <<"2">>], [Key |-> <<"B">>, Value |-> <<"3">>],
     [Key |-> <<"A">>, Value |-> <<"3">>], [Key |-> <<"A", "B">>, Value |-> <<"2">>]}

\* A request that asks for nothing beyond a command, and an image that
\* declares nothing.
DefaultConfig ==
    [Command |-> SliceOf(<<"/bin/echo">>), Args |-> <<>>, WorkingDir |-> "", Tty |-> FALSE,
     Envs |-> <<>>, Mounts |-> <<>>, Devices |-> <<>>, Privileged |-> FALSE,
     Capabilities |-> NilCapabilities, ReadonlyRootfs |-> FALSE]

DefaultImageConfig == [Entrypoint |-> <<>>, Cmd |-> <<>>, Env |-> <<>>, WorkingDir |-> ""]

NoHostDevices == [devices |-> <<>>, err |-> "nil"]

CompileInput(c, i, x, h) == [config |-> c, imageConfig |-> i, extraMounts |-> x, hostDevices |-> h]

\* Requests and images that differ in the command line and the working directory.
ArgsInputs ==
    {CompileInput([DefaultConfig EXCEPT !.Command = c, !.Args = a, !.WorkingDir = w],
                  [DefaultImageConfig EXCEPT !.Entrypoint = e, !.Cmd = d, !.WorkingDir = iw],
                  <<>>, NoHostDevices) :
        c \in {NilSlice, SliceOf(<<>>), SliceOf(<<"/bin/echo">>)},
        a \in {<<>>, <<"hi">>},
        e \in {<<>>, <<"/bin/sh">>},
        d \in {<<>>, <<"-c", "true">>},
        w \in {"", "/w"},
        iw \in {"", "/iw"}}

\* Requests and images that differ in the environment.
EnvInputs ==
    {CompileInput([DefaultConfig EXCEPT !.Envs = ce, !.Tty = t],
                  [DefaultImageConfig EXCEPT !.Env = ie],
                  <<>>, NoHostDevices) :
        ce \in SeqsUpTo(KeyValues, MaxEnvs),
        ie \in SeqsUpTo(ImageEnvStrings, MaxEnvs),
        t \in BOOLEAN}

\* Requests that differ in the mounts.
MountInputs ==
    {CompileInput([DefaultConfig EXCEPT !.Mounts = m], DefaultImageConfig, x, NoHostDevices) :
        m \in SeqsUpTo(Mounts, MaxMounts),
        x \in ExtraMountLists}

\* Unprivileged requests that differ in the capabilities.
CapInputs ==
    {CompileInput([DefaultConfig EXCEPT !.Capabilities =
                       [nil |-> FALSE, AddCapabilities |-> a, DropCapabilities |-> d]],
                  DefaultImageConfig, <<>>, NoHostDevices) :
        a \in SeqsUpTo(CapStrings, MaxCaps),
        d \in SeqsUpTo(CapStrings, MaxCaps)}

\* Requests that differ in the privileged flag, the devices and the host.
PrivilegedInputs ==
    {CompileInput([DefaultConfig EXCEPT !.Privileged = p, !.Devices = dv, !.Capabilities = c,
                                       !.ReadonlyRootfs = ro],
                  DefaultImageConfig, <<>>, h) :
        p \in BOOLEAN,
        dv \in SeqsUpTo(Devices, MaxDevices),
        c \in {NilCapabilities,
               [nil |-> FALSE, AddCapabilities |-> <<>>, DropCapabilities |-> <<>>],
               [nil |-> FALSE, AddCapabilities |-> <<"CHOWN">>, DropCapabilities |-> <<>>],
               [nil |-> FALSE, AddCapabilities |-> <<>>, DropCapabilities |-> <<"ALL">>]},
        ro \in BOOLEAN,
        h \in HostDeviceResults}

\* runtime.Mount values with a container path of their own.
MountAt(c, h, p, ro) == [ContainerPath |-> c, HostPath |-> h, Propagation |-> p, Readonly |-> ro]

\* Mounts of a private host path on /data and on /sys, read-only or not.
PrivilegedMounts ==
    {MountAt(c, "/pr", "PROPAGATION_PRIVATE", ro) : c \in {"/data", "/sys"}, ro \in BOOLEAN}

\* Requests that differ in the privileged flag, the read-only root and the mounts.
PrivilegedMountInputs ==
    {CompileInput([DefaultConfig EXCEPT !.Privileged = p, !.ReadonlyRootfs = ro, !.Mounts = m],
                  DefaultImageConfig, <<>>, NoHostDevices) :
        p \in BOOLEAN,
        ro \in BOOLEAN,
        m \in SeqsUpTo(PrivilegedMounts, MaxMounts)}

\* The requests generateContainerSpec is called with.
IsCompileInput(in) ==
    \/ in \in ArgsInputs
    \/ in \in EnvInputs
    \/ in \in MountInputs
    \/ in \in CapInputs
    \/ in \in PrivilegedInputs
    \/ in \in PrivilegedMountInputs

\* ------------------------------------------------ the host (c.os, devices)
\* c.os.Stat(src)
OsStat(src) ==
    CASE src \in {"/new", "/nomk"} -> "ENOENT"
      [] src = "/bad" -> "EIO"
      [] OTHER -> "nil"

\* c.os.MkdirAll(src, 0755)
OsMkdirAll(src) == IF src = "/nomk" THEN "EACCES" ELSE "nil"

\* c.os.ResolveSymbolicLink(path)
ResolveSymbolicLink(path) ==
    CASE path = "/ln" -> [path |-> "/sh", err |-> "nil"]
      [] path = "/dev/lnk" -> [path |-> "/dev/zero", err |-> "nil"]
      [] path \in {"/loop", "/dev/dangling"} -> [path |-> "", err |-> "ELOOP"]
      [] OTHER -> [path |-> path, err |-> "nil"]

\* c.os.LookupMount(path): the mount the path is on and the optional fields
\* of its line in the mount table, separated by spaces.
LookupMount(path) ==
    CASE path = "/sh" ->
            [Mountpoint |-> "/sh", Optional |-> <<"master:", "2", " ", "shared:", "1">>,
             err |-> "nil"]
      [] path = "/sl" ->
            [Mountpoint |-> "/sl", Optional |-> <<"master:", "2">>, err |-> "nil"]
      [] path = "/nomnt" -> [Mountpoint |-> "", Optional |-> <<>>, err |-> "ErrLookupMount"]
      [] OTHER -> [Mountpoint |-> "/", Optional |-> <<>>, err |-> "nil"]

\* devices.DeviceFromPath(path, permissions)
DeviceFromPath(path, permissions) ==
    CASE path = "/dev/null" ->
            [Type |-> "c", Major |-> 1, Minor |-> 3, Permissions |-> permissions, err |-> "nil"]
      [] path = "/dev/zero" ->
            [Type |-> "c", Major |-> 1, Minor |-> 5, Permissions |-> permissions, err |-> "nil"]
      [] OTHER ->
            [Type |-> "", Major |-> 0, Minor |-> 0, Permissions |-> permissions,
             err |-> "ErrNotADevice"]

\* ---------------------------------------------------- strings of the code
\* strings.ToUpper on the strings the model uses.
ToUpper(s) ==
    CASE s = "all" -> "ALL"
      [] s = "chown" -> "CHOWN"
      [] s = "kill" -> "KILL"
      [] s = "net_admin" -> "NET_ADMIN"
      [] s = "audit_read" -> "AUDIT_READ"
      [] OTHER -> s

\* strings.Split(s, sep) for a one-character separator.
RECURSIVE Split(_, _)
Split(s, sep) ==
    IF \E i \in 1..Len(s) : s[i] = sep
    THEN LET i == CHOOSE k \in 1..Len(s) : s[k] = sep /\ \A j \in 1..(k - 1) : s[j] # sep
         IN  <<SubSeq(s, 1, i - 1)>> \o Split(SubSeq(s, i + 1, Len(s)), sep)
    ELSE <<s>>

\* strings.SplitN(e, "=", 2)
SplitN2(e) ==
    IF \E i \in 1..Len(e) : e[i] = "="
    THEN LET i == CHOOSE k \in 1..Len(e) : e[k] = "=" /\ \A j \in 1..(k - 1) : e[j] # "="
         IN  <<SubSeq(e, 1, i - 1), SubSeq(e, i + 1, Len(e))>>
    ELSE <<e>>

\* strings.TrimPrefix(s, p)
TrimPrefix(s, p) == IF HasPrefix(s, p) THEN SubSeq(s, Len(p) + 1, Len(s)) ELSE s

\* ------------------------------------------------------ generate.Generator
\* capability.List(): the capabilities the library knows; the last one is
\* above validate.LastCap() on the host.
CapabilityList ==
    <<[String |-> "chown", AboveLastCap |-> FALSE],
      [String |-> "kill", AboveLastCap |-> FALSE],
      [String |-> "net_admin", AboveLastCap |-> FALSE],
      [String |-> "audit_read", AboveLastCap |-> TRUE]>>

\* "CAP_" + name
CapName(name) == <<"CAP_", name>>

\* The spec containerd.GenerateSpec makes for a container.
containerdGenerateSpec ==
    [Args |-> <<>>,
     Cwd |-> "/",
     Terminal |-> FALSE,
     Env |-> << <<"P", "A", "T", "H", "=", "/", "b", "i", "n">> >>,
     Mounts |-> <<[Destination |-> "/proc", Type |-> "proc", Source |-> "proc",
                   Options |-> <<>>],
                  [Destination |-> "/run", Type |-> "tmpfs", Source |-> "tmpfs",
                   Options |-> <<"nosuid", "strictatime">>],
                  [Destination |-> "/sys", Type |-> "sysfs", Source |-> "sysfs",
                   Options |-> <<"nosuid", "noexec", "nodev", "ro">>]>>,
     RootfsPropagation |-> "",
     RootReadonly |-> FALSE,
     Devices |-> <<>>,
     ResourcesDevices |-> <<[Allow |-> FALSE, Type |-> "", Major |-> -1, Minor |-> -1,
                             Access |-> "rwm"]>>,
     Capabilities |-> {CapName("CHOWN"), CapName("KILL")},
     ReadonlyPaths |-> <<"/proc/sys">>,
     MaskedPaths |-> <<"/proc/kcore">>,
     ApparmorProfile |-> "default",
     Seccomp |-> "default"]

\* defaultRuntimeSpec(id): the spec of containerd without the /run mount
\* and without a profile.
defaultRuntimeSpec ==
    [containerdGenerateSpec EXCEPT !.Mounts = SelectSeq(@, LAMBDA mount : mount.Destination # "/run"),
                         !.ApparmorProfile = "",
                         !.Seccomp = "nil"]

Ok(g) == [g |-> g, err |-> "nil"]
Fail(g, e) == [g |-> g, err |-> e]

\* g.AddProcessEnv(name, value): the entry name=value replaces the first
\* entry of that name, or is appended.
AddProcessEnv(g, name, value) ==
    LET entry == name \o <<"=">> \o value
        found == {i \in 1..Len(g.Env) : HasPrefix(g.Env[i], name \o <<"=">>)}
    IN  IF found = {}
        THEN [g EXCEPT !.Env = Append(@, entry)]
        ELSE LET i == CHOOSE k \in found : \A j \in found : k <= j
             IN  [g EXCEPT !.Env = [@ EXCEPT ![i] = entry]]

\* validate.CapValid(c, hostSpecific) in AddProcessCapability and DropProcessCapability
CapValid(c) == \E i \in 1..Len(CapabilityList) : c = CapName(ToUpper(CapabilityList[i].String))

\* g.AddProcessCapability(c)
AddProcessCapability(g, c) ==
    IF CapValid(c) THEN Ok([g EXCEPT !.Capabilities = @ \cup {c}])
    ELSE Fail(g, "ErrInvalidCapability")

\* g.DropProcessCapability(c)
DropProcessCapability(g, c) ==
    IF CapValid(c) THEN Ok([g EXCEPT !.Capabilities = @ \ {c}])
    ELSE Fail(g, "ErrInvalidCapability")

\* g.AddDevice(rd): a device of the same path is replaced.
AddDevice(g, rd) ==
    IF \E i \in 1..Len(g.Devices) : g.Devices[i].Path = rd.Path
    THEN [g EXCEPT !.Devices =
              [i \in 1..Len(@) |-> IF @[i].Path = rd.Path THEN rd ELSE @[i]]]
    ELSE [g EXCEPT !.Devices = Append(@, rd)]

\* g.AddCgroupsMount(mountCgroupOption)
AddCgroupsMount(g, option) ==
    [g EXCEPT !.Mounts = Append(@, [Destination |-> "/sys/fs/cgroup", Type |-> "cgroup",
                                    Source |-> "cgroup",
                                    Options |-> <<"nosuid", "noexec", "nodev", "relatime",
                                                  option>>])]

\* g.AddBindMount(source, dest, options)
AddBindMount(g, source, dest, options) ==
    [g EXCEPT !.Mounts = Append(@, [Destination |-> dest, Type |-> "bind",
                                    Source |-> source, Options |-> options])]

\* util.InStringSlice(ss, str): the comparison ignores case.
InStringSlice(ss, str) == \E i \in 1..Len(ss) : ToUpper(ss[i]) = ToUpper(str)

\* ------------------------------------------------------ setOCIProcessArgs
\* The image's default arguments follow an explicit command as well.
setOCIProcessArgsAlwaysCmd(g, config, imageConfig) ==
    LET command == IF config.Command.nil THEN imageConfig.Entrypoint
                   ELSE config.Command.elems
        args == IF Len(config.Args) = 0 THEN imageConfig.Cmd ELSE config.Args
    IN  IF Len(command) = 0 /\ Len(args) = 0 THEN Fail(g, "ErrNoCommand")
        ELSE Ok([g EXCEPT !.Args = command \o args])

setOCIProcessArgs(g, config, imageConfig) ==
    LET noCommand == Len(config.Command.elems) = 0
        args == IF noCommand /\ Len(config.Args) = 0 THEN imageConfig.Cmd ELSE config.Args
        command == IF noCommand /\ config.Command.nil THEN imageConfig.Entrypoint
                   ELSE config.Command.elems
    IN  IF Len(command) = 0 /\ Len(args) = 0 THEN Fail(g, "ErrNoCommand")
        ELSE Ok([g EXCEPT !.Args = command \o args])

\* ------------------------------------------------------------ environment
RECURSIVE addImageEnvs(_, _)
addImageEnvs(g, imageEnvs) ==
    IF imageEnvs = <<>> THEN Ok(g)
    ELSE LET kv == SplitN2(Head(imageEnvs))
         IN  IF Len(kv) # 2 THEN Fail(g, "ErrInvalidEnv")
             ELSE addImageEnvs(AddProcessEnv(g, kv[1], kv[2]), Tail(imageEnvs))

\* for _, e := range config.GetEnvs() { g.AddProcessEnv(e.GetKey(), e.GetValue()) }
RECURSIVE addConfigEnvs(_, _)
addConfigEnvs(g, envs) ==
    IF envs = <<>> THEN g
    ELSE addConfigEnvs(AddProcessEnv(g, Head(envs).Key, Head(envs).Value), Tail(envs))

\* g.SetProcessTerminal(config.GetTty()) and the TERM variable of a terminal
setTerminal(g, tty) ==
    LET t == [g EXCEPT !.Terminal = tty]
    IN  IF tty THEN AddProcessEnv(t, <<"T", "E", "R", "M">>, <<"x", "t", "e", "r", "m">>)
        ELSE t

\* The variables of the request are applied before those of the image.
generateContainerSpecEnvsConfigFirst(g, config, imageConfig) ==
    addImageEnvs(addConfigEnvs(setTerminal(g, config.Tty), config.Envs), imageConfig.Env)

\* generateContainerSpec, from the terminal to the variables of the request
generateContainerSpecEnvs(g, config, imageConfig) ==
    LET r == addImageEnvs(setTerminal(g, config.Tty), imageConfig.Env)
    IN  IF r.err # "nil" THEN r ELSE Ok(addConfigEnvs(r.g, config.Envs))

\* generateContainerSpec: the working directory
setProcessCwd(g, config, imageConfig) ==
    IF config.WorkingDir # "" THEN [g EXCEPT !.Cwd = config.WorkingDir]
    ELSE IF imageConfig.WorkingDir # "" THEN [g EXCEPT !.Cwd = imageConfig.WorkingDir]
    ELSE g

\* ----------------------------------------------------------------- mounts
\* Every source counts as being on a shared mount.
ensureSharedAlways(path) == "nil"

ensureShared(path) ==
    LET mountInfo == LookupMount(path)
        optsSplit == Split(mountInfo.Optional, " ")
    IN  IF mountInfo.err # "nil" THEN mountInfo.err
        ELSE IF \E i \in 1..Len(optsSplit) : HasPrefix(optsSplit[i], <<"shared:">>) THEN "nil"
        ELSE "ErrNotShared"

ensureSharedOrSlave(path) ==
    LET mountInfo == LookupMount(path)
        optsSplit == Split(mountInfo.Optional, " ")
    IN  IF mountInfo.err # "nil" THEN mountInfo.err
        ELSE IF \E i \in 1..Len(optsSplit) :
                    \/ HasPrefix(optsSplit[i], <<"shared:">>)
                    \/ HasPrefix(optsSplit[i], <<"master:">>)
             THEN "nil"
        ELSE "ErrNotSharedOrSlave"

\* The read-write option of a bind mount.
RoOrRw(mount) == IF mount.Readonly THEN <<"ro">> ELSE <<"rw">>

\* A host-to-container mount sets the root propagation to rslave whatever it was.
addOCIBindMountDowngrade(g, mount) ==
    LET dst == mount.ContainerPath
        stat == OsStat(mount.HostPath)
        resolved == ResolveSymbolicLink(mount.HostPath)
        src == resolved.path
    IN  IF stat # "nil" /\ stat # "ENOENT" THEN Fail(g, "ErrStat")
        ELSE IF stat = "ENOENT" /\ OsMkdirAll(mount.HostPath) # "nil" THEN Fail(g, "ErrMkdir")
        ELSE IF resolved.err # "nil" THEN Fail(g, "ErrResolveSymlink")
        ELSE CASE mount.Propagation = "PROPAGATION_PRIVATE" ->
                    Ok(AddBindMount(g, src, dst, <<"rbind", "rprivate">> \o RoOrRw(mount)))
               [] mount.Propagation = "PROPAGATION_BIDIRECTIONAL" ->
                    IF ensureShared(src) # "nil" THEN Fail(g, ensureShared(src))
                    ELSE Ok(AddBindMount([g EXCEPT !.RootfsPropagation = "rshared"],
                                         src, dst, <<"rbind", "rshared">> \o RoOrRw(mount)))
               [] mount.Propagation = "PROPAGATION_HOST_TO_CONTAINER" ->
                    IF ensureSharedOrSlave(src) # "nil" THEN Fail(g, ensureSharedOrSlave(src))
                    ELSE Ok(AddBindMount([g EXCEPT !.RootfsPropagation = "rslave"],
                                         src, dst, <<"rbind", "rslave">> \o RoOrRw(mount)))
               [] OTHER ->
                    Ok(AddBindMount(g, src, dst, <<"rbind", "rprivate">> \o RoOrRw(mount)))

\* addOCIBindMounts: the body of the loop, for one mount
addOCIBindMount(g, mount) ==
    LET dst == mount.ContainerPath
        stat == OsStat(mount.HostPath)
        resolved == ResolveSymbolicLink(mount.HostPath)
        src == resolved.path
    IN  IF stat # "nil" /\ stat # "ENOENT" THEN Fail(g, "ErrStat")
        ELSE IF stat = "ENOENT" /\ OsMkdirAll(mount.HostPath) # "nil" THEN Fail(g, "ErrMkdir")
        ELSE IF resolved.err # "nil" THEN Fail(g, "ErrResolveSymlink")
        ELSE CASE mount.Propagation = "PROPAGATION_PRIVATE" ->
                    Ok(AddBindMount(g, src, dst, <<"rbind", "rprivate">> \o RoOrRw(mount)))
               [] mount.Propagation = "PROPAGATION_BIDIRECTIONAL" ->
                    IF ensureShared(src) # "nil" THEN Fail(g, ensureShared(src))
                    ELSE Ok(AddBindMount([g EXCEPT !.RootfsPropagation = "rshared"],
                                         src, dst, <<"rbind", "rshared">> \o RoOrRw(mount)))
               [] mount.Propagation = "PROPAGATION_HOST_TO_CONTAINER" ->
                    IF ensureSharedOrSlave(src) # "nil" THEN Fail(g, ensureSharedOrSlave(src))
                    ELSE Ok(AddBindMount(
                                IF g.RootfsPropagation # "rshared" /\ g.RootfsPropagation # "rslave"
                                THEN [g EXCEPT !.RootfsPropagation = "rslave"] ELSE g,
                                src, dst, <<"rbind", "rslave">> \o RoOrRw(mount)))
               [] OTHER ->
                    Ok(AddBindMount(g, src, dst, <<"rbind", "rprivate">> \o RoOrRw(mount)))

\* addOCIBindMounts: the loop over the mounts
RECURSIVE addOCIBindMountsLoop(_, _)
addOCIBindMountsLoop(g, mounts) ==
    IF mounts = <<>> THEN Ok(g)
    ELSE LET r == addOCIBindMount(g, Head(mounts))
         IN  IF r.err # "nil" THEN r ELSE addOCIBindMountsLoop(r.g, Tail(mounts))

addOCIBindMounts(g, mounts) == addOCIBindMountsLoop(AddCgroupsMount(g, "ro"), mounts)

\* ---------------------------------------------------------------- devices
RECURSIVE addOCIDevices(_, _)
addOCIDevices(g, devs) ==
    IF devs = <<>> THEN Ok(g)
    ELSE LET device == Head(devs)
             resolved == ResolveSymbolicLink(device.HostPath)
             dev == DeviceFromPath(resolved.path, device.Permissions)
             rd == [Path |-> device.ContainerPath, Type |-> dev.Type,
                    Major |-> dev.Major, Minor |-> dev.Minor]
             rule == [Allow |-> TRUE, Type |-> dev.Type, Major |-> dev.Major,
                      Minor |-> dev.Minor, Access |-> dev.Permissions]
         IN  IF resolved.err # "nil" THEN Fail(g, resolved.err)
             ELSE IF dev.err # "nil" THEN Fail(g, dev.err)
             ELSE addOCIDevices([AddDevice(g, rd) EXCEPT !.ResourcesDevices = Append(@, rule)],
                                Tail(devs))

\* setOCIDevicesPrivileged: the loop over the host devices
RECURSIVE addHostDevices(_, _)
addHostDevices(g, hostDevs) ==
    IF hostDevs = <<>> THEN g
    ELSE LET hostDevice == Head(hostDevs)
         IN  IF hostDevice.Major = 0 /\ hostDevice.Minor = 0
             THEN addHostDevices(g, Tail(hostDevs))
             ELSE addHostDevices(AddDevice(g, hostDevice), Tail(hostDevs))

\* The rule that allows every device.
AllowAllDevices == <<[Allow |-> TRUE, Type |-> "", Major |-> -1, Minor |-> -1, Access |-> "rwm"]>>

\* No host device is mapped.
setOCIDevicesPrivilegedNone(g, hostDevices) ==
    IF hostDevices.err # "nil" THEN Fail(g, hostDevices.err)
    ELSE Ok([g EXCEPT !.ResourcesDevices = AllowAllDevices])

setOCIDevicesPrivileged(g, hostDevices) ==
    IF hostDevices.err # "nil" THEN Fail(g, hostDevices.err)
    ELSE Ok([addHostDevices(g, hostDevices.devices) EXCEPT !.ResourcesDevices = AllowAllDevices])

\* ------------------------------------------------------------ capabilities
\* getOCICapabilitiesList(), in the order of capability.List()
getOCICapabilitiesList ==
    LET known == SelectSeq(CapabilityList, LAMBDA c : ~c.AboveLastCap)
    IN  [i \in 1..Len(known) |-> CapName(ToUpper(known[i].String))]

\* One loop of setOCICapabilities over a list of capability names; names
\* is the list as the request gave it when skipAll is set.
RECURSIVE capabilitiesLoop(_, _, _, _)
capabilitiesLoop(r, names, add, skipAll) ==
    IF r.err # "nil" \/ names = <<>> THEN r
    ELSE IF skipAll /\ ToUpper(Head(names)) = "ALL"
         THEN capabilitiesLoop(r, Tail(names), add, skipAll)
    ELSE LET c == IF skipAll THEN CapName(ToUpper(Head(names))) ELSE Head(names)
         IN  capabilitiesLoop(IF add THEN AddProcessCapability(r.g, c)
                              ELSE DropProcessCapability(r.g, c),
                              Tail(names), add, skipAll)

\* "ALL" is expanded after the single entries were processed.
setOCICapabilitiesAllLast(g, capabilities) ==
    IF capabilities.nil THEN Ok(g)
    ELSE LET r1 == capabilitiesLoop(Ok(g), capabilities.AddCapabilities, TRUE, TRUE)
             r2 == capabilitiesLoop(r1, capabilities.DropCapabilities, FALSE, TRUE)
             r3 == IF InStringSlice(capabilities.AddCapabilities, "ALL")
                   THEN capabilitiesLoop(r2, getOCICapabilitiesList, TRUE, FALSE) ELSE r2
         IN  IF InStringSlice(capabilities.DropCapabilities, "ALL")
             THEN capabilitiesLoop(r3, getOCICapabilitiesList, FALSE, FALSE) ELSE r3

setOCICapabilities(g, capabilities) ==
    IF capabilities.nil THEN Ok(g)
    ELSE LET r1 == IF InStringSlice(capabilities.AddCapabilities, "ALL")
                   THEN capabilitiesLoop(Ok(g), getOCICapabilitiesList, TRUE, FALSE) ELSE Ok(g)
             r2 == IF InStringSlice(capabilities.DropCapabilities, "ALL")
                   THEN capabilitiesLoop(r1, getOCICapabilitiesList, FALSE, FALSE) ELSE r1
             r3 == capabilitiesLoop(r2, capabilities.AddCapabilities, TRUE, TRUE)
         IN  capabilitiesLoop(r3, capabilities.DropCapabilities, FALSE, TRUE)

\* -------------------------------------------------------- privileged mode
\* g.SetupPrivileged(true): every capability, no apparmor or seccomp profile
SetupPrivileged(g) ==
    [g EXCEPT !.Capabilities = {getOCICapabilitiesList[i] : i \in 1..Len(getOCICapabilitiesList)},
              !.ApparmorProfile = "",
              !.Seccomp = "nil"]

clearReadOnly(m) == [m EXCEPT !.Options = SelectSeq(@, LAMBDA o : o # "ro")]

\* The read-only marker of /sys is kept.
setOCIBindMountsPrivilegedKeepSys(g) ==
    [g EXCEPT !.Mounts =
                  [i \in 1..Len(@) |-> IF @[i].Type = "cgroup" THEN clearReadOnly(@[i]) ELSE @[i]],
              !.ReadonlyPaths = <<>>,
              !.MaskedPaths = <<>>]

setOCIBindMountsPrivileged(g) ==
    [g EXCEPT !.Mounts =
                  [i \in 1..Len(@) |->
                      IF \/ @[i].Destination = "/sys" /\ ~g.RootReadonly
                         \/ @[i].Type = "cgroup"
                      THEN clearReadOnly(@[i]) ELSE @[i]],
              !.ReadonlyPaths = <<>>,
              !.MaskedPaths = <<>>]

setOCIPrivileged(g, hostDevices) ==
    setOCIDevicesPrivileged(setOCIBindMountsPrivileged(SetupPrivileged(g)), hostDevices)

\* A privileged request that names devices is refused.
generateContainerSpecPrivilegedChecked(g, config, hostDevices) ==
    IF config.Privileged
    THEN IF config.Devices # <<>> THEN Fail(g, "ErrNoPrivilegedAllowed")
         ELSE setOCIPrivileged(g, hostDevices)
    ELSE LET r == addOCIDevices(g, config.Devices)
         IN  IF r.err # "nil" THEN r ELSE setOCICapabilities(r.g, config.Capabilities)

\* generateContainerSpec: the branch on securityContext.GetPrivileged()
generateContainerSpecPrivileged(g, config, hostDevices) ==
    IF config.Privileged
    THEN IF ~config.Privileged THEN Fail(g, "ErrNoPrivilegedAllowed")
         ELSE setOCIPrivileged(g, hostDevices)
    ELSE LET r == addOCIDevices(g, config.Devices)
         IN  IF r.err # "nil" THEN r ELSE setOCICapabilities(r.g, config.Capabilities)

\* -------------------------------------------------- generateContainerSpec
\* The labels, the resources, the cgroups path, the namespaces and the
\* groups the function sets afterwards are fields the model does not hold.
generateContainerSpec(config, imageConfig, extraMounts, hostDevices) ==
    LET r1 == setOCIProcessArgs(defaultRuntimeSpec, config, imageConfig)
        r2 == generateContainerSpecEnvs(setProcessCwd(r1.g, config, imageConfig),
                                        config, imageConfig)
        r3 == addOCIBindMounts(r2.g, extraMounts \o config.Mounts)
        r4 == generateContainerSpecPrivileged(r3.g, config, hostDevices)
    IN  IF r1.err # "nil" THEN r1
        ELSE IF r2.err # "nil" THEN r2
        ELSE IF r3.err # "nil" THEN r3
        ELSE IF r4.err # "nil" THEN r4
        ELSE Ok([r4.g EXCEPT !.RootReadonly = config.ReadonlyRootfs])

InitNoCompile ==
    /\ compileInput = CompileInput(DefaultConfig, DefaultImageConfig, <<>>, NoHostDevices)
    /\ generator = defaultRuntimeSpec
    /\ specErr = "nil"
    /\ compiled = FALSE

\* ------------------------------------------- seccomp and apparmor profiles
profileNamePrefix == <<"l", "o", "c", "a", "l", "h", "o", "s", "t", "/">>
runtimeDefault == <<"r", "u", "n", "t", "i", "m", "e", "/", "d", "e", "f", "a", "u", "l", "t">>
dockerDefault == <<"d", "o", "c", "k", "e", "r", "/", "d", "e", "f", "a", "u", "l", "t">>
appArmorDefaultProfileName == <<"c", "r", "i", "-", "c", "o", "n", "t", "a", "i", "n", "e", "r", "d", ".", "a", "p", "p", "a", "r", "m", "o", "r", ".", "d">>
unconfinedProfile == <<"u", "n", "c", "o", "n", "f", "i", "n", "e", "d">>
seccompDefaultProfile == dockerDefault

\* Profile names of a request: none, the names the code knows, a local
\* profile, the bare prefix, and names that miss the prefix.
ProfileNames ==
    {<<>>, unconfinedProfile, runtimeDefault, dockerDefault,
     profileNamePrefix \o <<"p">>, profileNamePrefix, <<"p">>,
     <<"l", "o", "c", "a", "l", "h", "o", "s", "t">>}

\* A containerd.SpecOpts value; NilOpts is the nil one.
NilOpts == [opts |-> "nil", profile |-> <<>>]
SeccompWithDefaultProfile == [opts |-> "seccomp.WithDefaultProfile", profile |-> <<>>]
SeccompWithProfile(profile) == [opts |-> "seccomp.WithProfile", profile |-> profile]
ApparmorWithDefaultProfile(name) == [opts |-> "apparmor.WithDefaultProfile", profile |-> name]
ApparmorWithProfile(profile) == [opts |-> "apparmor.WithProfile", profile |-> profile]

Opts(o) == [opts |-> o, err |-> "nil"]
OptsErr(e) == [opts |-> NilOpts, err |-> e]

\* The prefix stays in the name of a local profile.
generateSeccompSpecOptsKeepPrefix(seccompProf, privileged, seccompEnabled) ==
    IF privileged THEN Opts(NilOpts)
    ELSE IF ~seccompEnabled
         THEN IF seccompProf # <<>> /\ seccompProf # unconfinedProfile
              THEN OptsErr("ErrSeccompNotSupported") ELSE Opts(NilOpts)
    ELSE IF seccompProf \in {<<>>, unconfinedProfile} THEN Opts(NilOpts)
    ELSE IF seccompProf \in {runtimeDefault, dockerDefault} THEN Opts(SeccompWithDefaultProfile)
    ELSE IF ~HasPrefix(seccompProf, profileNamePrefix)
         THEN OptsErr("ErrInvalidSeccompProfile")
    ELSE Opts(SeccompWithProfile(seccompProf))

\* The profile of a privileged container is resolved as well.
generateSeccompSpecOptsOfPrivileged(seccompProf, privileged, seccompEnabled) ==
    LET prof == IF seccompProf = runtimeDefault \/ seccompProf = dockerDefault
                THEN seccompDefaultProfile ELSE seccompProf
    IN  IF ~seccompEnabled
        THEN IF prof # <<>> /\ prof # unconfinedProfile
             THEN OptsErr("ErrSeccompNotSupported") ELSE Opts(NilOpts)
        ELSE CASE prof = <<>> \/ prof = unconfinedProfile -> Opts(NilOpts)
               [] prof = dockerDefault -> Opts(SeccompWithDefaultProfile)
               [] OTHER ->
                    IF ~HasPrefix(prof, profileNamePrefix)
                    THEN OptsErr("ErrInvalidSeccompProfile")
                    ELSE Opts(SeccompWithProfile(TrimPrefix(prof, profileNamePrefix)))

generateSeccompSpecOpts(seccompProf, privileged, seccompEnabled) ==
    LET prof == IF seccompProf = runtimeDefault \/ seccompProf = dockerDefault
                THEN seccompDefaultProfile ELSE seccompProf
    IN  IF privileged THEN Opts(NilOpts)
        ELSE IF ~seccompEnabled
        THEN IF prof # <<>> /\ prof # unconfinedProfile
             THEN OptsErr("ErrSeccompNotSupported") ELSE Opts(NilOpts)
        ELSE CASE prof = <<>> \/ prof = unconfinedProfile -> Opts(NilOpts)
               [] prof = dockerDefault -> Opts(SeccompWithDefaultProfile)
               [] OTHER ->
                    IF ~HasPrefix(prof, profileNamePrefix)
                    THEN OptsErr("ErrInvalidSeccompProfile")
                    ELSE Opts(SeccompWithProfile(TrimPrefix(prof, profileNamePrefix)))

\* A privileged container without a profile gets the default profile too.
generateApparmorSpecOptsDefaultForAll(apparmorProf, privileged, apparmorEnabled) ==
    IF ~apparmorEnabled
    THEN IF apparmorProf # <<>> /\ apparmorProf # unconfinedProfile
         THEN OptsErr("ErrApparmorNotSupported") ELSE Opts(NilOpts)
    ELSE CASE apparmorProf = runtimeDefault \/ apparmorProf = <<>> ->
                Opts(ApparmorWithDefaultProfile(appArmorDefaultProfileName))
           [] apparmorProf = unconfinedProfile -> Opts(NilOpts)
           [] OTHER ->
                IF ~HasPrefix(apparmorProf, profileNamePrefix)
                THEN OptsErr("ErrInvalidApparmorProfile")
                ELSE Opts(ApparmorWithProfile(TrimPrefix(apparmorProf, profileNamePrefix)))

generateApparmorSpecOpts(apparmorProf, privileged, apparmorEnabled) ==
    IF ~apparmorEnabled
    THEN IF apparmorProf # <<>> /\ apparmorProf # unconfinedProfile
         THEN OptsErr("ErrApparmorNotSupported") ELSE Opts(NilOpts)
    ELSE CASE apparmorProf = runtimeDefault ->
                Opts(ApparmorWithDefaultProfile(appArmorDefaultProfileName))
           [] apparmorProf = unconfinedProfile -> Opts(NilOpts)
           [] apparmorProf = <<>> ->
                IF privileged THEN Opts(NilOpts)
                ELSE Opts(ApparmorWithDefaultProfile(appArmorDefaultProfileName))
           [] OTHER ->
                IF ~HasPrefix(apparmorProf, profileNamePrefix)
                THEN OptsErr("ErrInvalidApparmorProfile")
                ELSE Opts(ApparmorWithProfile(TrimPrefix(apparmorProf, profileNamePrefix)))

\* The result of a generate...SpecOpts call that was not made.
NotCalled == [opts |-> NilOpts, err |-> "not called"]

SecurityContexts ==
    [ApparmorProfile : ProfileNames, SeccompProfilePath : ProfileNames, Privileged : BOOLEAN]

InitNoSecurity ==
    /\ securityContext = [ApparmorProfile |-> <<>>, SeccompProfilePath |-> <<>>,
                          Privileged |-> FALSE]
    /\ hostApparmorEnabled = TRUE
    /\ hostSeccompEnabled = TRUE
    /\ apparmorSpecOpts = NotCalled
    /\ seccompSpecOpts = NotCalled
    /\ specOpts = <<>>
    /\ secPc = "idle"

\* ------------------------------------------------- streamExecutor.Stream
\* remotecommand.StreamProtocolV4Name ... StreamProtocolV1Name, and a name
\* of a later protocol that Stream does not know.
StreamProtocolV4Name == "v4.channel.k8s.io"
StreamProtocolV3Name == "v3.channel.k8s.io"
StreamProtocolV2Name == "v2.channel.k8s.io"
StreamProtocolV1Name == "channel.k8s.io"
StreamProtocolV5Name == "v5.channel.k8s.io"

\* The protocols NewSPDYExecutor asks for, the best first.
NewSPDYExecutorProtocols ==
    <<StreamProtocolV4Name, StreamProtocolV3Name, StreamProtocolV2Name, StreamProtocolV1Name>>

\* Protocol lists given to NewSPDYExecutorForProtocols.
ProtocolLists ==
    {NewSPDYExecutorProtocols, <<StreamProtocolV5Name, StreamProtocolV4Name>>,
     <<StreamProtocolV1Name>>}

\* streamExecutor values: goodRequest is whether http.NewRequest accepts
\* the method and the url.
Executors == [protocols : ProtocolLists, goodRequest : BOOLEAN]

StreamOptionsSet == [Stdin : BOOLEAN, Stdout : BOOLEAN, Stderr : BOOLEAN, Tty : BOOLEAN]

NoStreamOptions == [Stdin |-> FALSE, Stdout |-> FALSE, Stderr |-> FALSE, Tty |-> FALSE]

\* A streamProtocolHandler; NilStreamer is the nil interface value.
NilStreamer == [handler |-> "nil", options |-> NoStreamOptions]
Streamer(h, o) == [handler |-> h, options |-> o]

\* Every protocol gets the newest handler.
newStreamProtocolNewest(protocol, o) == Streamer("streamProtocolV4", o)

\* The switch on the negotiated protocol in Stream
newStreamProtocol(protocol, o) ==
    CASE protocol = StreamProtocolV4Name -> Streamer("streamProtocolV4", o)
      [] protocol = StreamProtocolV3Name -> Streamer("streamProtocolV3", o)
      [] protocol = StreamProtocolV2Name -> Streamer("streamProtocolV2", o)
      [] protocol = "" -> Streamer("streamProtocolV1", o)
      [] protocol = StreamProtocolV1Name -> Streamer("streamProtocolV1", o)
      [] OTHER -> NilStreamer

\* What spdy.Negotiate returned; NotNegotiated before the call.
NotNegotiated == [protocol |-> "", err |-> "not called"]

InitNoStream ==
    /\ executor = [protocols |-> NewSPDYExecutorProtocols, goodRequest |-> TRUE]
    /\ streamOptions = NoStreamOptions
    /\ streamPc = "idle"
    /\ negotiated = NotNegotiated
    /\ conn = "none"
    /\ streamer = NilStreamer
    /\ streamed = NilStreamer
    /\ streamErr = "nil"

\* --------------------------------------------------------- handleResizing
\* Most sizes sent on the resize channel.
MaxSizes == 4
\* Largest capacity of the resize channel.
MaxChanCap == 1

\* remotecommand.TerminalSize values sent on the channel.
TerminalSize(w, h) == [Width |-> w, Height |-> h]
Sizes == {TerminalSize(0, 0), TerminalSize(80, 24), TerminalSize(0, 5),
          TerminalSize(100, 40), TerminalSize(80, 0)}

NoSize == TerminalSize(0, 0)

\* The resize channel: nil, or a channel of some capacity with the sizes
\* waiting in it.
NilChan == [nil |-> TRUE, cap |-> 0, buf |-> <<>>, closed |-> FALSE]
MakeChan(n) == [nil |-> FALSE, cap |-> n, buf |-> <<>>, closed |-> FALSE]

\* Only the width is tested.
DegenerateWidth(s) == s.Width < 1

\* if size.Height < 1 || size.Width < 1 { continue }
Degenerate(s) == s.Height < 1 \/ s.Width < 1

\* The goroutine returns as soon as the channel is empty.
NotOkWhenEmpty(ch) == ch.buf = <<>>

\* !ok after size, ok := <-resize: the channel is closed and nothing is left in it.
NotOk(ch) == ch.closed /\ ch.buf = <<>>

InitNoResize ==
    /\ resize = NilChan
    /\ sent = <<>>
    /\ resizePc = "idle"
    /\ size = NoSize
    /\ resized = <<>>

\* ------------------------------------------------------------ streamRuntime
\* Most calls of c.portForward the model follows.
MaxForwards == 2

\* math.MaxUint16
MaxUint16 == 2^16 - 1

\* Ports of a PortForward call (int32): below, at and above the two ends of
\* the range.
Ports == {-2147483647, -1, 0, 1, 80, MaxUint16 - 1, MaxUint16, MaxUint16 + 1, 2147483647}

\* Exit codes execInContainer reports (uint32).
ExitCodes == {0, 1, 2, 127, 255, 256, 2147483647}

\* What execInContainer returns: an exit code, or an error and no exit code.
ExecResults ==
    {[exitCode |-> x, err |-> "nil"] : x \in ExitCodes}
    \cup {[exitCode |-> 0, err |-> e] : e \in {"ErrExecSetup", "ErrExecTimeout"}}

\* What c.portForward returns.
ForwardResults == {"nil", "ErrNoSocat", "ErrForward"}

\* The error values of the streaming methods: nil, an error made by
\* fmt.Errorf, an error of the callee handed on, and *exec.CodeExitError.
NilError == [kind |-> "nil", msg |-> "", hasCode |-> FALSE, Code |-> 0]
Errorf(msg) == [kind |-> "errorString", msg |-> msg, hasCode |-> FALSE, Code |-> 0]
ErrorOf(e) == IF e = "nil" THEN NilError
              ELSE [kind |-> "callee", msg |-> e, hasCode |-> FALSE, Code |-> 0]
CodeExitError(code) ==
    [kind |-> "CodeExitError", msg |-> "error executing command", hasCode |-> TRUE, Code |-> code]

\* int(*exitCode): a uint32 converted to int; the value is kept where int
\* has 64 bits, and for every value below 2^31 where it has 32.
IntOfUint32(u) == IF u <= 2147483647 THEN u ELSE u - 2147483647 - 2147483647 - 2

\* A non-zero exit code is reported as an error without a code.
ExecReturnNoCode(r) ==
    IF r.err # "nil" THEN Errorf("failed to exec in container")
    ELSE IF r.exitCode = 0 THEN NilError
    ELSE Errorf("error executing command")

\* streamRuntime.Exec: what it returns for the result r of execInContainer
ExecReturn(r) ==
    IF r.err # "nil" THEN Errorf("failed to exec in container")
    ELSE IF r.exitCode = 0 THEN NilError
    ELSE CodeExitError(IntOfUint32(r.exitCode))

\* The highest port is refused too.
InvalidPortAtMax(port) == port <= 0 \/ port >= MaxUint16

\* streamRuntime.PortForward: port <= 0 || port > math.MaxUint16
InvalidPort(port) == port <= 0 \/ port > MaxUint16

\* No call of the streamRuntime was made.
NoStreamCall == [method |-> "none", port |-> 0, result |-> "nil", exec |-> [exitCode |-> 0, err |-> "nil"]]

InitNoRuntime ==
    /\ rtCall = NoStreamCall
    /\ rtRet = NilError
    /\ forwarded = <<>>

\* ------------------------------------------- the mounts of CreateContainer
\* Most mounts a request names.
MaxCriMounts == 2

etcHosts == "/etc/hosts"
resolvConfPath == "/etc/resolv.conf"
devShm == "/dev/shm"

\* filepath.Clean, on the paths the model uses.
Clean(path) == IF path = "/etc/hosts/" THEN "/etc/hosts" ELSE path

\* Container paths of the mounts of a request: one of them is not clean.
CriMountPaths == {etcHosts, "/etc/hosts/", resolvConfPath, devShm, "/data"}

\* Volumes an image declares.
ImageVolumes == {etcHosts, devShm, "/data", "/vol"}

\* A runtime.Mount, as far as CreateContainer's mount lists go.
CriMount(containerPath, hostPath, readonly) ==
    [ContainerPath |-> containerPath, HostPath |-> hostPath, Readonly |-> readonly]

\* isInCRIMounts(dst, mounts): a mount of the list has the container path dst
isInCRIMounts(dst, mounts) ==
    \E i \in 1..Len(mounts) : Clean(mounts[i].ContainerPath) = Clean(dst)

\* filepath.Join(containerRootDir, "volumes", util.GenerateID()) for the
\* k-th volume made
VolumeDir(k) == <<"volumes/1", "volumes/2", "volumes/3", "volumes/4", "volumes/5">>[k]

\* generateVolumeMounts: the loop, over the volumes in the order the map
\* yields them
RECURSIVE volumeMountsLoop(_, _, _)
volumeMountsLoop(mounts, order, criMounts) ==
    IF order = <<>> THEN mounts
    ELSE IF isInCRIMounts(Head(order), criMounts)
         THEN volumeMountsLoop(mounts, Tail(order), criMounts)
         ELSE volumeMountsLoop(Append(mounts, CriMount(Head(order), VolumeDir(Len(mounts) + 1), FALSE)),
                               Tail(order), criMounts)

generateVolumeMounts(criMounts, order) == volumeMountsLoop(<<>>, order, criMounts)

\* generateContainerMounts: the mounts of /etc/hosts, /etc/resolv.conf and /dev/shm
generateContainerMounts(config) ==
    (IF ~isInCRIMounts(etcHosts, config.Mounts)
     THEN <<CriMount(etcHosts, "sandbox/hosts", config.ReadonlyRootfs)>> ELSE <<>>)
    \o (IF ~isInCRIMounts(resolvConfPath, config.Mounts)
        THEN <<CriMount(resolvConfPath, "sandbox/resolv.conf", config.ReadonlyRootfs)>> ELSE <<>>)
    \o (IF ~isInCRIMounts(devShm, config.Mounts)
        THEN <<CriMount(devShm, IF config.HostIpc THEN devShm ELSE "sandbox/shm", FALSE)>>
        ELSE <<>>)

\* The orders a range over the set s can take.
Orders(s) ==
    {o \in [1..Cardinality(s) -> s] : \A i, j \in 1..Cardinality(s) : i # j => o[i] # o[j]}

InitNoMounts ==
    /\ mountConfig = [Mounts |-> <<>>, ReadonlyRootfs |-> FALSE, HostIpc |-> FALSE]
    /\ imageVolumes = {}
    /\ volumeMounts = <<>>
    /\ containerMounts = <<>>
    /\ specMounts = <<>>
    /\ mountPc = "idle"

\* ---------------------------------------------------------- backend manager
\* Most GetBackend calls the callers make together.
MaxGetCalls == 3

\* The goroutines that call GetBackend.
BackendCallers == {"g1", "g2"}

\* Backend types the callers ask for: one in two spellings, one that no
\* constructor is registered for.
BackendTypes == {"vxlan", "VXLAN", "udp", "bogus"}

\* strings.ToLower on the backend types the model uses.
ToLower(s) == IF s = "VXLAN" THEN "vxlan" ELSE s

\* The names Register was called with at start-up: the keys of constructors.
constructors == {"vxlan", "udp"}

\* The cleanup goroutines there can be: every call starts at most one.
TaskIds == 1..MaxGetCalls

\* No GetBackend call is made, and nothing was returned.
NoBackendCall == [backendType |-> "none", pc |-> "idle"]
NoBackend == [be |-> 0, err |-> "nil", done |-> FALSE]

\* The mutex is taken whether or not it is held.
CanLockMuxAlways(m) == TRUE

\* sync.Mutex.Lock returns: the mutex is not held.
CanLockMux(m) == ~m

\* if be, ok := bm.active[betype]; ok
IsActive(a, betype) == betype \in DOMAIN a

\* befunc, ok := constructors[betype]
IsRegistered(betype) == betype \in constructors

InitNoManager ==
    /\ active = <<>>
    /\ mux = FALSE
    /\ ctxDone = FALSE
    /\ mcall = [p \in BackendCallers |-> NoBackendCall]
    /\ mret = [p \in BackendCallers |-> NoBackend]
    /\ made = 0
    /\ tasks = <<>>
    /\ built = <<>>

\* ---------------------------------------------- sequential client of Store
\* hit is the full ID a Delete resolved its argument to (<<>> when it resolved none).
NoRet == [op |-> "none", arg |-> <<>>, sb |-> None, err |-> "nil", list |-> {}, hit |-> <<>>]

\* NewStore()
InitStore ==
    /\ sandboxes = <<>>
    /\ idIndex = {}

Add(sb) ==
    /\ \/ Cardinality(DOMAIN sandboxes) < MaxStored
       \/ StoreAddErr(sandboxes, idIndex, sb) # "nil"
    /\ sandboxes' = StoreAddMap(sandboxes, idIndex, sb)
    /\ idIndex' = StoreAddIndex(sandboxes, idIndex, sb)
    /\ ret' = [op |-> "Add", arg |-> sb.ID, sb |-> sb,
               err |-> StoreAddErr(sandboxes, idIndex, sb), list |-> {}, hit |-> <<>>]
    /\ UNCHANGED <<concVars, createVars, serviceVars>>

Get(id) ==
    /\ ret' = [op |-> "Get", arg |-> id, sb |-> StoreGet(sandboxes, idIndex, id).sb,
               err |-> StoreGet(sandboxes, idIndex, id).err, list |-> {}, hit |-> <<>>]
    /\ UNCHANGED <<storeVars, concVars, createVars, serviceVars>>

List ==
    /\ ret' = [op |-> "List", arg |-> <<>>, sb |-> None, err |-> "nil",
               list |-> StoreList(sandboxes), hit |-> <<>>]
    /\ UNCHANGED <<storeVars, concVars, createVars, serviceVars>>

Delete(id) ==
    /\ sandboxes' = StoreDeleteMap(sandboxes, idIndex, id)
    /\ idIndex' = StoreDeleteIndex(sandboxes, idIndex, id)
    /\ ret' = [op |-> "Delete", arg |-> id, sb |-> None, err |-> "nil", list |-> {},
               hit |-> TruncIndexGet(idIndex, id).id]
    /\ UNCHANGED <<concVars, createVars, serviceVars>>

vars == <<sandboxes, idIndex, ret, lock, pc, call, res, store0, createVars, serviceVars>>

Init ==
    /\ InitStore
    /\ ret = NoRet
    /\ InitIdle
    /\ InitNoCreate
    /\ InitNoCompile
    /\ InitNoSecurity
    /\ InitNoStream
    /\ InitNoResize
    /\ InitNoRuntime
    /\ InitNoMounts
    /\ InitNoManager

Next ==
    \/ \E id \in Strings, meta \in Metas : Add(SandboxOf(id, meta))
    \/ \E id \in Strings : Get(id)
    \/ List
    \/ \E id \in Strings : Delete(id)

Spec == Init /\ [][Next]_vars

\* ------------------------------------------- steps of the concurrent callers
\* A caller enters Add, Get, List or Delete.
Call(p, c) ==
    /\ pc[p] = "idle"
    /\ call' = [call EXCEPT ![p] = c]
    /\ pc' = [pc EXCEPT ![p] = "lock"]
    /\ UNCHANGED <<sandboxes, idIndex, ret, lock, res, store0, createVars, serviceVars>>

\* s.lock.Lock() of Add and Delete
Lock(p) ==
    /\ pc[p] = "lock"
    /\ call[p].op \in {"Add", "Delete"}
    /\ CanLock(lock)
    /\ lock' = [lock EXCEPT !.writer = p]
    /\ pc' = [pc EXCEPT ![p] = "index"]
    /\ UNCHANGED <<sandboxes, idIndex, ret, call, res, store0, createVars, serviceVars>>

\* s.lock.RLock() of Get and List
RLock(p) ==
    /\ pc[p] = "lock"
    /\ call[p].op \in {"Get", "List"}
    /\ CanRLock(lock)
    /\ lock' = [lock EXCEPT !.readers = @ \cup {p}]
    /\ pc' = [pc EXCEPT ![p] = "read"]
    /\ UNCHANGED <<sandboxes, idIndex, ret, call, res, store0, createVars, serviceVars>>

\* Add: the presence check and s.idIndex.Add(sb.ID)
AddIndex(p) ==
    LET sb == SandboxOf(call[p].id, call[p].meta)
        err == StoreAddErr(sandboxes, idIndex, sb) IN
    /\ pc[p] = "index"
    /\ call[p].op = "Add"
    /\ idIndex' = StoreAddIndex(sandboxes, idIndex, sb)
    /\ res' = [res EXCEPT ![p].err = err]
    /\ pc' = [pc EXCEPT ![p] = IF err = "nil" THEN "map" ELSE "unlock"]
    /\ UNCHANGED <<sandboxes, ret, lock, call, store0, createVars, serviceVars>>

\* Add: s.sandboxes[sb.ID] = sb
AddMap(p) ==
    /\ pc[p] = "map"
    /\ call[p].op = "Add"
    /\ sandboxes' = MapPut(sandboxes, call[p].id, SandboxOf(call[p].id, call[p].meta))
    /\ pc' = [pc EXCEPT ![p] = "unlock"]
    /\ UNCHANGED <<idIndex, ret, lock, call, res, store0, createVars, serviceVars>>

\* Delete: s.idIndex.Get(id) and s.idIndex.Delete(id)
DeleteIndex(p) ==
    LET r == TruncIndexGet(idIndex, call[p].id) IN
    /\ pc[p] = "index"
    /\ call[p].op = "Delete"
    /\ idIndex' = StoreDeleteIndex(sandboxes, idIndex, call[p].id)
    /\ res' = [res EXCEPT ![p].hit = r.id]
    /\ pc' = [pc EXCEPT ![p] = IF r.err = "nil" THEN "map" ELSE "unlock"]
    /\ UNCHANGED <<sandboxes, ret, lock, call, store0, createVars, serviceVars>>

\* Delete: delete(s.sandboxes, id)
DeleteMap(p) ==
    /\ pc[p] = "map"
    /\ call[p].op = "Delete"
    /\ sandboxes' = MapDelete(sandboxes, res[p].hit)
    /\ pc' = [pc EXCEPT ![p] = "unlock"]
    /\ UNCHANGED <<idIndex, ret, lock, call, res, store0, createVars, serviceVars>>

\* Get under the read lock
GetRead(p) ==
    LET r == StoreGet(sandboxes, idIndex, call[p].id) IN
    /\ pc[p] = "read"
    /\ call[p].op = "Get"
    /\ res' = [res EXCEPT ![p].sb = r.sb, ![p].err = r.err]
    /\ pc' = [pc EXCEPT ![p] = "runlock"]
    /\ UNCHANGED <<sandboxes, idIndex, ret, lock, call, store0, createVars, serviceVars>>

\* List under the read lock
ListRead(p) ==
    /\ pc[p] = "read"
    /\ call[p].op = "List"
    /\ res' = [res EXCEPT ![p].list = StoreList(sandboxes)]
    /\ pc' = [pc EXCEPT ![p] = "runlock"]
    /\ UNCHANGED <<sandboxes, idIndex, ret, lock, call, store0, createVars, serviceVars>>

\* defer s.lock.Unlock()
Unlock(p) ==
    /\ pc[p] = "unlock"
    /\ lock' = [lock EXCEPT !.writer = "none"]
    /\ pc' = [pc EXCEPT ![p] = "done"]
    /\ UNCHANGED <<sandboxes, idIndex, ret, call, res, store0, createVars, serviceVars>>

\* defer s.lock.RUnlock()
RUnlock(p) ==
    /\ pc[p] = "runlock"
    /\ lock' = [lock EXCEPT !.readers = @ \ {p}]
    /\ pc' = [pc EXCEPT ![p] = "done"]
    /\ UNCHANGED <<sandboxes, idIndex, ret, call, res, store0, createVars, serviceVars>>

InitConc ==
    /\ sandboxes \in ReachableStores
    /\ idIndex = DOMAIN sandboxes
    /\ ret = NoRet
    /\ lock = Unlocked
    /\ pc = [p \in Procs |-> "idle"]
    /\ call = [p \in Procs |-> NoCall]
    /\ res = [p \in Procs |-> NoRes]
    /\ store0 = DOMAIN sandboxes
    /\ InitNoCreate
    /\ InitNoCompile
    /\ InitNoSecurity
    /\ InitNoStream
    /\ InitNoResize
    /\ InitNoRuntime
    /\ InitNoMounts
    /\ InitNoManager

NextConc ==
    \E p \in Procs :
        \/ \E c \in Calls : Call(p, c)
        \/ Lock(p)
        \/ RLock(p)
        \/ AddIndex(p)
        \/ AddMap(p)
        \/ DeleteIndex(p)
        \/ DeleteMap(p)
        \/ GetRead(p)
        \/ ListRead(p)
        \/ Unlock(p)
        \/ RUnlock(p)

SpecConc == InitConc /\ [][NextConc]_vars

\* ------------------------------------------------ CreateContainer: steps
\* return nil, fmt.Errorf(...): retErr is set and the deferred functions run.
ReturnErr(p, e) ==
    /\ retErr' = [retErr EXCEPT ![p] = e]
    /\ cpc' = [cpc EXCEPT ![p] = "defers"]

\* The call goes on to its next step.
Goto(p, l) ==
    /\ cpc' = [cpc EXCEPT ![p] = l]
    /\ UNCHANGED retErr

\* The deferred function is put behind the ones registered before it.
DeferLast(p, d) == defers' = [defers EXCEPT ![p] = Append(@, d)]

\* defer func() { if retErr != nil { ... } }()
Defer(p, d) == defers' = [defers EXCEPT ![p] = <<d>> \o @]

\* c.sandboxStore.Get(r.GetPodSandboxId()) and sandbox.Container.Task(ctx, nil)
FindSandbox(p, sid, taskErr) ==
    /\ cpc[p] = "start"
    /\ IF Failed(StoreGet(sandboxes, idIndex, sid).err) THEN ReturnErr(p, "ErrFindSandbox")
       ELSE IF Failed(taskErr) THEN ReturnErr(p, "ErrSandboxTask")
       ELSE Goto(p, "reserve")
    /\ UNCHANGED <<storeVars, ret, concVars, serviceVars, nameToKey, containers, containerIndex,
                   rootDirs, ios, engine, checkpoints, cid, cname, defers, undone,
                   cleanupErrs>>

\* The release of the name is deferred before the reservation is looked at.
ReserveNameDeferFirst(p, name) ==
    LET id == GenerateID(p)
        err == ReserveErr(nameToKey, name, id) IN
    /\ cpc[p] = "reserve"
    /\ cid' = [cid EXCEPT ![p] = id]
    /\ cname' = [cname EXCEPT ![p] = name]
    /\ nameToKey' = ReserveMap(nameToKey, name, id)
    /\ IF ReserveRefused(err)
       THEN ReturnErr(p, "ErrReserveName") /\ Defer(p, "release")
       ELSE Goto(p, "resolve") /\ Defer(p, "release")
    /\ UNCHANGED <<storeVars, ret, concVars, serviceVars, containers, containerIndex, rootDirs,
                   ios, engine, checkpoints, undone, cleanupErrs>>

\* util.GenerateID(), makeContainerName(...) and c.containerNameIndex.Reserve(name, id)
ReserveName(p, name) ==
    LET id == GenerateID(p)
        err == ReserveErr(nameToKey, name, id) IN
    /\ cpc[p] = "reserve"
    /\ cid' = [cid EXCEPT ![p] = id]
    /\ cname' = [cname EXCEPT ![p] = name]
    /\ nameToKey' = ReserveMap(nameToKey, name, id)
    /\ IF ReserveRefused(err)
       THEN ReturnErr(p, "ErrReserveName") /\ UNCHANGED defers
       ELSE Goto(p, "resolve") /\ Defer(p, "release")
    /\ UNCHANGED <<storeVars, ret, concVars, serviceVars, containers, containerIndex, rootDirs,
                   ios, engine, checkpoints, undone, cleanupErrs>>

\* A step that changes nothing but may fail with the error e.
PureStep(p, at, e, next) ==
    /\ cpc[p] = at
    /\ IF Failed(e) THEN ReturnErr(p, e) ELSE Goto(p, next)
    /\ UNCHANGED <<storeVars, ret, concVars, serviceVars, nameToKey, containers, containerIndex,
                   rootDirs, ios, engine, checkpoints, cid, cname, defers, undone,
                   cleanupErrs>>

\* c.localResolve(ctx, imageRef): an error, or no image found
ResolveImage(p, e) == PureStep(p, "resolve", e, "mkdir")

\* c.os.MkdirAll(containerRootDir, 0755)
MkdirAll(p, e) ==
    /\ cpc[p] = "mkdir"
    /\ IF Failed(e)
       THEN ReturnErr(p, e) /\ UNCHANGED <<rootDirs, defers>>
       ELSE /\ Goto(p, "spec")
            /\ rootDirs' = rootDirs \cup {cid[p]}
            /\ Defer(p, "rmdir")
    /\ UNCHANGED <<storeVars, ret, concVars, serviceVars, nameToKey, containers, containerIndex,
                   ios, engine, checkpoints, cid, cname, undone, cleanupErrs>>

\* generateVolumeMounts, generateContainerMounts and c.generateContainerSpec(...)
GenerateSpec(p, e) == PureStep(p, "spec", e, "io")

\* cio.NewContainerIO(id, ...)
NewContainerIO(p, e) ==
    /\ cpc[p] = "io"
    /\ IF Failed(e)
       THEN ReturnErr(p, e) /\ UNCHANGED <<ios, defers>>
       ELSE /\ Goto(p, "secopts")
            /\ ios' = ios \cup {cid[p]}
            /\ Defer(p, "ioclose")
    /\ UNCHANGED <<storeVars, ret, concVars, serviceVars, nameToKey, containers, containerIndex,
                   rootDirs, engine, checkpoints, cid, cname, undone, cleanupErrs>>

\* generateApparmorSpecOpts(...) and generateSeccompSpecOpts(...)
SecurityOpts(p, e) == PureStep(p, "secopts", e, "newcontainer")

\* c.client.NewContainer(ctx, id, opts...)
NewContainer(p, e) ==
    /\ cpc[p] = "newcontainer"
    /\ IF Failed(e)
       THEN ReturnErr(p, e) /\ UNCHANGED <<engine, defers>>
       ELSE /\ Goto(p, "status")
            /\ engine' = engine \cup {cid[p]}
            /\ Defer(p, "cntrdelete")
    /\ UNCHANGED <<storeVars, ret, concVars, serviceVars, nameToKey, containers, containerIndex,
                   rootDirs, ios, checkpoints, cid, cname, undone, cleanupErrs>>

\* containerstore.NewContainer(meta, WithStatus(status, containerRootDir), ...)
NewStoreContainer(p, e) ==
    /\ cpc[p] = "status"
    /\ IF Failed(e)
       THEN ReturnErr(p, e) /\ UNCHANGED <<checkpoints, defers>>
       ELSE /\ Goto(p, "storeadd")
            /\ checkpoints' = checkpoints \cup {cid[p]}
            /\ Defer(p, "ckptdelete")
    /\ UNCHANGED <<storeVars, ret, concVars, serviceVars, nameToKey, containers, containerIndex,
                   rootDirs, ios, engine, cid, cname, undone, cleanupErrs>>

\* c.containerStore.Add(container) and the return that follows it
StoreAdd(p) ==
    LET c == SandboxOf(cid[p], cname[p])
        err == StoreAddErr(containers, containerIndex, c) IN
    /\ cpc[p] = "storeadd"
    /\ containers' = StoreAddMap(containers, containerIndex, c)
    /\ containerIndex' = StoreAddIndex(containers, containerIndex, c)
    /\ IF Failed(err) THEN ReturnErr(p, "ErrStoreAdd") ELSE ReturnErr(p, "nil")
    /\ UNCHANGED <<storeVars, ret, concVars, serviceVars, nameToKey, rootDirs, ios, engine,
                   checkpoints, cid, cname, defers, undone, cleanupErrs>>

\* What the cleanup d of the call p removes when it returns the error e.
Cleaned(p, d, e, of, set) ==
    IF d = of /\ ~Failed(e) THEN set \ {cid[p]} ELSE set

\* A cleanup that fails ends the rollback: the functions deferred before it
\* are dropped.
RunDeferAborts(p, e) ==
    LET d == Head(defers[p]) IN
    /\ cpc[p] = "defers"
    /\ defers[p] # <<>>
    /\ d = "release" => e = "nil"
    /\ defers' = [defers EXCEPT ![p] = IF Failed(e) THEN <<>> ELSE Tail(@)]
    /\ IF ShouldCleanup(retErr[p])
       THEN /\ undone' = [undone EXCEPT ![p] = Append(@, d)]
            /\ cleanupErrs' = [cleanupErrs EXCEPT ![p] = IF Failed(e) THEN @ \cup {d} ELSE @]
            /\ nameToKey' = IF d = "release" THEN ReleaseByName(nameToKey, cname[p])
                            ELSE nameToKey
            /\ rootDirs' = Cleaned(p, d, e, "rmdir", rootDirs)
            /\ ios' = Cleaned(p, d, e, "ioclose", ios)
            /\ engine' = Cleaned(p, d, e, "cntrdelete", engine)
            /\ checkpoints' = Cleaned(p, d, e, "ckptdelete", checkpoints)
       ELSE /\ e = "nil"
            /\ UNCHANGED <<undone, cleanupErrs, nameToKey, rootDirs, ios, engine,
                           checkpoints>>
    /\ UNCHANGED <<storeVars, ret, concVars, serviceVars, containers, containerIndex, cpc, cid,
                   cname, retErr>>

\* The next deferred function runs: its cleanup, when retErr is set; the
\* cleanup's own error e is logged.
RunDefer(p, e) ==
    LET d == Head(defers[p]) IN
    /\ cpc[p] = "defers"
    /\ defers[p] # <<>>
    /\ d = "release" => e = "nil"
    /\ defers' = [defers EXCEPT ![p] = Tail(@)]
    /\ IF ShouldCleanup(retErr[p])
       THEN /\ undone' = [undone EXCEPT ![p] = Append(@, d)]
            /\ cleanupErrs' = [cleanupErrs EXCEPT ![p] = IF Failed(e) THEN @ \cup {d} ELSE @]
            /\ nameToKey' = IF d = "release" THEN ReleaseByName(nameToKey, cname[p])
                            ELSE nameToKey
            /\ rootDirs' = Cleaned(p, d, e, "rmdir", rootDirs)
            /\ ios' = Cleaned(p, d, e, "ioclose", ios)
            /\ engine' = Cleaned(p, d, e, "cntrdelete", engine)
            /\ checkpoints' = Cleaned(p, d, e, "ckptdelete", checkpoints)
       ELSE /\ e = "nil"
            /\ UNCHANGED <<undone, cleanupErrs, nameToKey, rootDirs, ios, engine,
                           checkpoints>>
    /\ UNCHANGED <<storeVars, ret, concVars, serviceVars, containers, containerIndex, cpc, cid,
                   cname, retErr>>

\* The call returns to its caller.
Return(p) ==
    /\ cpc[p] = "defers"
    /\ defers[p] = <<>>
    /\ cpc' = [cpc EXCEPT ![p] = "returned"]
    /\ UNCHANGED <<storeVars, ret, concVars, serviceVars, nameToKey, containers, containerIndex,
                   rootDirs, ios, engine, checkpoints, cid, cname, retErr, defers,
                   undone, cleanupErrs>>

\* The sandbox store holds the running sandbox of the requests.
InitCreate ==
    /\ sandboxes = [k \in {SandboxID} |-> SandboxOf(SandboxID, "m1")]
    /\ idIndex = {SandboxID}
    /\ ret = NoRet
    /\ InitIdle
    /\ InitNoCreate
    /\ InitNoCompile
    /\ InitNoSecurity
    /\ InitNoStream
    /\ InitNoResize
    /\ InitNoRuntime
    /\ InitNoMounts
    /\ InitNoManager

NextCreate ==
    \E p \in Creators :
        \/ \E sid \in SandboxIDs, e \in {"nil", "ErrTask"} : FindSandbox(p, sid, e)
        \/ \E name \in Names : ReserveName(p, name)
        \/ \E e \in {"nil", "ErrResolveImage", "ErrImageNotFound"} : ResolveImage(p, e)
        \/ \E e \in {"nil", "ErrMkdir"} : MkdirAll(p, e)
        \/ \E e \in {"nil", "ErrSpec"} : GenerateSpec(p, e)
        \/ \E e \in {"nil", "ErrIO"} : NewContainerIO(p, e)
        \/ \E e \in {"nil", "ErrApparmor", "ErrSeccomp"} : SecurityOpts(p, e)
        \/ \E e \in {"nil", "ErrNewContainer"} : NewContainer(p, e)
        \/ \E e \in {"nil", "ErrContainerObject"} : NewStoreContainer(p, e)
        \/ StoreAdd(p)
        \/ \E e \in {"nil", "ErrCleanup"} : RunDefer(p, e)
        \/ Return(p)

SpecCreate == InitCreate /\ [][NextCreate]_vars

\* A container the store holds from an earlier call, under the id the second
\* caller's util.GenerateID() returns; its containerd container is gone.
StaleContainer == SandboxOf(GenerateID("c2"), "n0")

\* The sandbox store holds the running sandbox of the requests, and the
\* container store the stale container.
InitSaga ==
    /\ sandboxes = [k \in {SandboxID} |-> SandboxOf(SandboxID, "m1")]
    /\ idIndex = {SandboxID}
    /\ ret = NoRet
    /\ InitIdle
    /\ InitNoCompile
    /\ InitNoSecurity
    /\ InitNoStream
    /\ InitNoResize
    /\ InitNoRuntime
    /\ InitNoMounts
    /\ InitNoManager
    /\ nameToKey = <<>>
    /\ containers = StoreAddMap(<<>>, {}, StaleContainer)
    /\ containerIndex = StoreAddIndex(<<>>, {}, StaleContainer)
    /\ rootDirs = {}
    /\ ios = {}
    /\ engine = {}
    /\ checkpoints = {}
    /\ cpc = [p \in Creators |-> "start"]
    /\ cid = [p \in Creators |-> <<>>]
    /\ cname = [p \in Creators |-> "none"]
    /\ retErr = [p \in Creators |-> "nil"]
    /\ defers = [p \in Creators |-> <<>>]
    /\ undone = [p \in Creators |-> <<>>]
    /\ cleanupErrs = [p \in Creators |-> {}]

SpecSaga == InitSaga /\ [][NextCreate]_vars


\* -------------------------------------------- generateContainerSpec: call
OtherThanCompile ==
    <<storeVars, ret, concVars, createVars, securityVars, streamVars, resizeVars, runtimeVars, mountVars, managerVars>>

\* c.generateContainerSpec(id, sandboxPid, config, sandboxConfig, &image.ImageSpec.Config, mounts)
GenerateContainerSpec ==
    /\ ~compiled
    /\ generator' = generateContainerSpec(compileInput.config, compileInput.imageConfig,
                                          compileInput.extraMounts,
                                          compileInput.hostDevices).g
    /\ specErr' = generateContainerSpec(compileInput.config, compileInput.imageConfig,
                                        compileInput.extraMounts,
                                        compileInput.hostDevices).err
    /\ compiled' = TRUE
    /\ UNCHANGED <<compileInput, OtherThanCompile>>

InitCompile ==
    /\ InitStore
    /\ ret = NoRet
    /\ InitIdle
    /\ InitNoCreate
    /\ InitNoRuntime
    /\ InitNoMounts
    /\ InitNoManager
    /\ IsCompileInput(compileInput)
    /\ generator = defaultRuntimeSpec
    /\ specErr = "nil"
    /\ compiled = FALSE
    /\ InitNoSecurity
    /\ InitNoStream
    /\ InitNoResize

NextCompile == GenerateContainerSpec

SpecCompile == InitCompile /\ [][NextCompile]_vars

\* ------------------------------------- CreateContainer: security profiles
OtherThanSecurity ==
    <<storeVars, ret, concVars, createVars, compileVars, streamVars, resizeVars, runtimeVars, mountVars, managerVars>>

\* The SpecOpts list with one more option, unless the option is nil.
AppendOpts(list, o) == IF o # NilOpts THEN Append(list, o) ELSE list

\* generateApparmorSpecOpts(...) and what CreateContainer does with its result
ApparmorSpecOpts ==
    /\ secPc = "apparmor"
    /\ apparmorSpecOpts' = generateApparmorSpecOpts(securityContext.ApparmorProfile,
                                                    securityContext.Privileged,
                                                    hostApparmorEnabled)
    /\ IF apparmorSpecOpts'.err # "nil"
       THEN secPc' = "failed" /\ UNCHANGED specOpts
       ELSE secPc' = "seccomp" /\ specOpts' = AppendOpts(specOpts, apparmorSpecOpts'.opts)
    /\ UNCHANGED <<securityContext, hostApparmorEnabled, hostSeccompEnabled, seccompSpecOpts,
                   OtherThanSecurity>>

\* generateSeccompSpecOpts(...) and what CreateContainer does with its result
SeccompSpecOpts ==
    /\ secPc = "seccomp"
    /\ seccompSpecOpts' = generateSeccompSpecOpts(securityContext.SeccompProfilePath,
                                                  securityContext.Privileged,
                                                  hostSeccompEnabled)
    /\ IF seccompSpecOpts'.err # "nil"
       THEN secPc' = "failed" /\ UNCHANGED specOpts
       ELSE secPc' = "done" /\ specOpts' = AppendOpts(specOpts, seccompSpecOpts'.opts)
    /\ UNCHANGED <<securityContext, hostApparmorEnabled, hostSeccompEnabled, apparmorSpecOpts,
                   OtherThanSecurity>>

InitSecurity ==
    /\ InitStore
    /\ ret = NoRet
    /\ InitIdle
    /\ InitNoCreate
    /\ InitNoRuntime
    /\ InitNoMounts
    /\ InitNoManager
    /\ InitNoCompile
    /\ securityContext \in SecurityContexts
    /\ hostApparmorEnabled \in BOOLEAN
    /\ hostSeccompEnabled \in BOOLEAN
    /\ apparmorSpecOpts = NotCalled
    /\ seccompSpecOpts = NotCalled
    /\ specOpts = <<>>
    /\ secPc = "apparmor"
    /\ InitNoStream
    /\ InitNoResize

NextSecurity ==
    \/ ApparmorSpecOpts
    \/ SeccompSpecOpts

SpecSecurity == InitSecurity /\ [][NextSecurity]_vars

\* ------------------------------------------------- streamExecutor.Stream
OtherThanStream ==
    <<storeVars, ret, concVars, createVars, compileVars, securityVars, resizeVars, runtimeVars, mountVars, managerVars>>

\* http.NewRequest(e.method, e.url.String(), nil)
NewRequest ==
    /\ streamPc = "request"
    /\ IF executor.goodRequest
       THEN streamPc' = "negotiate" /\ UNCHANGED streamErr
       ELSE streamPc' = "returned" /\ streamErr' = "ErrCreatingRequest"
    /\ UNCHANGED <<executor, streamOptions, negotiated, conn, streamer, streamed, OtherThanStream>>

\* The protocols of the executor, as a set.
Offered(e) == {e.protocols[i] : i \in 1..Len(e.protocols)}

\* spdy.Negotiate(...): the upgrade fails with err, or the peer names one of
\* the offered protocols, or names none.
Negotiate(protocol, err) ==
    /\ streamPc = "negotiate"
    /\ IF err # "nil"
       THEN /\ protocol = ""
            /\ streamErr' = err
            /\ streamPc' = "returned"
            /\ UNCHANGED conn
       ELSE /\ protocol \in Offered(executor) \cup {""}
            /\ conn' = "open"
            /\ streamPc' = "switch"
            /\ UNCHANGED streamErr
    /\ negotiated' = [protocol |-> protocol, err |-> err]
    /\ UNCHANGED <<executor, streamOptions, streamer, streamed, OtherThanStream>>

\* switch protocol { ... }
SwitchProtocol ==
    /\ streamPc = "switch"
    /\ streamer' = newStreamProtocol(negotiated.protocol, streamOptions)
    /\ streamPc' = "stream"
    /\ UNCHANGED <<executor, streamOptions, negotiated, conn, streamed, streamErr, OtherThanStream>>

\* return streamer.stream(conn), and the deferred conn.Close(); calling the
\* method of the nil streamer panics.
StreamConn(err) ==
    /\ streamPc = "stream"
    /\ IF streamer = NilStreamer
       THEN err = "nil" /\ streamErr' = "panic" /\ UNCHANGED streamed
       ELSE streamErr' = err /\ streamed' = streamer
    /\ conn' = "closed"
    /\ streamPc' = "returned"
    /\ UNCHANGED <<executor, streamOptions, negotiated, streamer, OtherThanStream>>

InitStream ==
    /\ InitStore
    /\ ret = NoRet
    /\ InitIdle
    /\ InitNoCreate
    /\ InitNoRuntime
    /\ InitNoMounts
    /\ InitNoManager
    /\ InitNoCompile
    /\ InitNoSecurity
    /\ executor \in Executors
    /\ streamOptions \in StreamOptionsSet
    /\ streamPc = "request"
    /\ negotiated = NotNegotiated
    /\ conn = "none"
    /\ streamer = NilStreamer
    /\ streamed = NilStreamer
    /\ streamErr = "nil"
    /\ InitNoResize

NextStream ==
    \/ NewRequest
    \/ \E protocol \in {StreamProtocolV5Name, StreamProtocolV4Name, StreamProtocolV3Name,
                        StreamProtocolV2Name, StreamProtocolV1Name, ""},
          err \in {"nil", "ErrUpgrade", "ErrDial"} : Negotiate(protocol, err)
    \/ SwitchProtocol
    \/ \E err \in {"nil", "ErrStream"} : StreamConn(err)

SpecStream == InitStream /\ [][NextStream]_vars

\* --------------------------------------------------------- handleResizing
OtherThanResize ==
    <<storeVars, ret, concVars, createVars, compileVars, securityVars, streamVars, runtimeVars, mountVars, managerVars>>

\* handleResizing(resize, resizeFunc): returns at once for a nil channel,
\* starts the goroutine otherwise.
HandleResizing ==
    /\ resizePc = "call"
    /\ resizePc' = IF resize.nil THEN "returned" ELSE "recv"
    /\ UNCHANGED <<resize, sent, size, resized, OtherThanResize>>

\* The session sends a size: into the buffer of the channel when there is
\* room, to the waiting goroutine when the channel has no buffer.
Send(s) ==
    /\ ~resize.nil
    /\ ~resize.closed
    /\ Len(sent) < MaxSizes
    /\ IF Len(resize.buf) < resize.cap
       THEN /\ resize' = [resize EXCEPT !.buf = Append(@, s)]
            /\ UNCHANGED <<resizePc, size>>
       ELSE /\ resize.buf = <<>>
            /\ resizePc = "recv"
            /\ size' = s
            /\ resizePc' = "check"
            /\ UNCHANGED resize
    /\ sent' = Append(sent, s)
    /\ UNCHANGED <<resized, OtherThanResize>>

\* The session closes the channel.
Close ==
    /\ ~resize.nil
    /\ ~resize.closed
    /\ resize' = [resize EXCEPT !.closed = TRUE]
    /\ UNCHANGED <<sent, resizePc, size, resized, OtherThanResize>>

\* size, ok := <-resize; if !ok { return }
Receive ==
    /\ resizePc = "recv"
    /\ IF resize.buf # <<>>
       THEN /\ size' = Head(resize.buf)
            /\ resize' = [resize EXCEPT !.buf = Tail(@)]
            /\ resizePc' = "check"
       ELSE /\ NotOk(resize)
            /\ resizePc' = "done"
            /\ UNCHANGED <<resize, size>>
    /\ UNCHANGED <<sent, resized, OtherThanResize>>

\* if size.Height < 1 || size.Width < 1 { continue }; resizeFunc(size)
ResizeFunc ==
    /\ resizePc = "check"
    /\ resized' = IF Degenerate(size) THEN resized ELSE Append(resized, size)
    /\ resizePc' = "recv"
    /\ UNCHANGED <<resize, sent, size, OtherThanResize>>

InitResize ==
    /\ InitStore
    /\ ret = NoRet
    /\ InitIdle
    /\ InitNoCreate
    /\ InitNoRuntime
    /\ InitNoMounts
    /\ InitNoManager
    /\ InitNoCompile
    /\ InitNoSecurity
    /\ InitNoStream
    /\ resize \in {NilChan} \cup {MakeChan(n) : n \in 0..MaxChanCap}
    /\ sent = <<>>
    /\ resizePc = "call"
    /\ size = NoSize
    /\ resized = <<>>

NextResize ==
    \/ HandleResizing
    \/ \E s \in Sizes : Send(s)
    \/ Close
    \/ Receive
    \/ ResizeFunc

SpecResize == InitResize /\ [][NextResize]_vars

\* The goroutine is scheduled: a step it can take, it takes.
SpecResizeLive == SpecResize /\ WF_vars(Receive) /\ WF_vars(ResizeFunc)

\* ------------------------------------------------- streamRuntime: calls
OtherThanRuntime ==
    <<storeVars, ret, concVars, createVars, compileVars, securityVars, streamVars, resizeVars,
      mountVars, managerVars>>

\* streamRuntime.Exec(containerID, cmd, ...), execInContainer returning r
Exec(r) ==
    /\ rtCall' = [NoStreamCall EXCEPT !.method = "Exec", !.exec = r]
    /\ rtRet' = ExecReturn(r)
    /\ UNCHANGED <<forwarded, OtherThanRuntime>>

\* streamRuntime.PortForward(podSandboxID, port, stream), c.portForward
\* returning result when it is called
PortForward(port, result) ==
    /\ InvalidPort(port) => result = "nil"
    /\ ~InvalidPort(port) => Len(forwarded) < MaxForwards
    /\ rtCall' = [NoStreamCall EXCEPT !.method = "PortForward", !.port = port, !.result = result]
    /\ IF InvalidPort(port)
       THEN rtRet' = Errorf("invalid port") /\ UNCHANGED forwarded
       ELSE rtRet' = ErrorOf(result) /\ forwarded' = Append(forwarded, port)
    /\ UNCHANGED OtherThanRuntime

InitRuntime ==
    /\ InitStore
    /\ ret = NoRet
    /\ InitIdle
    /\ InitNoCreate
    /\ InitNoCompile
    /\ InitNoSecurity
    /\ InitNoStream
    /\ InitNoResize
    /\ InitNoMounts
    /\ InitNoManager
    /\ InitNoRuntime

NextRuntime ==
    \/ \E r \in ExecResults : Exec(r)
    \/ \E port \in Ports, result \in ForwardResults : PortForward(port, result)

SpecRuntime == InitRuntime /\ [][NextRuntime]_vars

\* ------------------------------------ the mounts of CreateContainer: steps
OtherThanMounts ==
    <<storeVars, ret, concVars, createVars, compileVars, securityVars, streamVars, resizeVars,
      runtimeVars, managerVars>>

\* c.generateVolumeMounts(containerRootDir, config.GetMounts(), image.Config),
\* the map of volumes ranged over in the order given
GenerateVolumeMounts(order) ==
    /\ mountPc = "volumes"
    /\ volumeMounts' = generateVolumeMounts(mountConfig.Mounts, order)
    /\ mountPc' = "mounts"
    /\ UNCHANGED <<mountConfig, imageVolumes, containerMounts, specMounts, OtherThanMounts>>

\* c.generateContainerMounts(getSandboxRootDir(c.config.RootDir, sandboxID), config)
GenerateContainerMounts ==
    /\ mountPc = "mounts"
    /\ containerMounts' = generateContainerMounts(mountConfig)
    /\ mountPc' = "spec"
    /\ UNCHANGED <<mountConfig, imageVolumes, volumeMounts, specMounts, OtherThanMounts>>

\* c.generateContainerSpec(..., append(mounts, volumeMounts...))
AppendMounts ==
    /\ mountPc = "spec"
    /\ specMounts' = containerMounts \o volumeMounts
    /\ mountPc' = "done"
    /\ UNCHANGED <<mountConfig, imageVolumes, volumeMounts, containerMounts, OtherThanMounts>>

InitMounts ==
    /\ InitStore
    /\ ret = NoRet
    /\ InitIdle
    /\ InitNoCreate
    /\ InitNoCompile
    /\ InitNoSecurity
    /\ InitNoStream
    /\ InitNoResize
    /\ InitNoRuntime
    /\ InitNoManager
    /\ mountConfig \in [Mounts : {[i \in 1..Len(paths) |-> CriMount(paths[i], "/host", FALSE)] :
                                     paths \in SeqsUpTo(CriMountPaths, MaxCriMounts)},
                        ReadonlyRootfs : BOOLEAN,
                        HostIpc : BOOLEAN]
    /\ imageVolumes \in SUBSET ImageVolumes
    /\ volumeMounts = <<>>
    /\ containerMounts = <<>>
    /\ specMounts = <<>>
    /\ mountPc = "volumes"

NextMounts ==
    \/ \E order \in Orders(imageVolumes) : GenerateVolumeMounts(order)
    \/ GenerateContainerMounts
    \/ AppendMounts

SpecMounts == InitMounts /\ [][NextMounts]_vars

\* ---------------------------------------------- backend manager: GetBackend
OtherThanManager ==
    <<storeVars, ret, concVars, createVars, compileVars, securityVars, streamVars, resizeVars,
      runtimeVars, mountVars>>

\* The caller p is at the place pc of GetBackend.
SetPc(p, l) == [mcall EXCEPT ![p].pc = l]

\* A caller enters GetBackend(backendType).
GetBackendCall(p, backendType) ==
    /\ mcall[p].pc = "idle"
    /\ made < MaxGetCalls
    /\ made' = made + 1
    /\ mcall' = [mcall EXCEPT ![p] = [backendType |-> backendType, pc |-> "lock"]]
    /\ mret' = [mret EXCEPT ![p] = NoBackend]
    /\ UNCHANGED <<active, mux, ctxDone, tasks, built, OtherThanManager>>

\* bm.mux.Lock()
GetBackendLock(p) ==
    /\ mcall[p].pc = "lock"
    /\ CanLockMux(mux)
    /\ mux' = TRUE
    /\ mcall' = SetPc(p, "lookup")
    /\ UNCHANGED <<active, ctxDone, mret, made, tasks, built, OtherThanManager>>

\* The lookup in bm.active and in constructors
GetBackendLookup(p) ==
    LET betype == ToLower(mcall[p].backendType) IN
    /\ mcall[p].pc = "lookup"
    /\ IF IsActive(active, betype)
       THEN /\ mret' = [mret EXCEPT ![p] = [be |-> active[betype], err |-> "nil",
                                            done |-> ctxDone]]
            /\ mcall' = SetPc(p, "unlock")
       ELSE IF ~IsRegistered(betype)
       THEN /\ mret' = [mret EXCEPT ![p] = [be |-> 0, err |-> "ErrUnknownBackend",
                                            done |-> ctxDone]]
            /\ mcall' = SetPc(p, "unlock")
       ELSE /\ mcall' = SetPc(p, "construct")
            /\ UNCHANGED mret
    /\ UNCHANGED <<active, mux, ctxDone, made, tasks, built, OtherThanManager>>

\* befunc(bm.sm, bm.extIface) returning err, bm.active[betype] = be and the
\* go statement of the cleanup goroutine
GetBackendConstruct(p, err) ==
    LET betype == ToLower(mcall[p].backendType)
        be == Len(built) + 1 IN
    /\ mcall[p].pc = "construct"
    /\ IF err # "nil"
       THEN /\ mret' = [mret EXCEPT ![p] = [be |-> 0, err |-> err, done |-> ctxDone]]
            /\ UNCHANGED <<active, tasks, built>>
       ELSE /\ active' = MapPut(active, betype, be)
            /\ built' = Append(built, [betype |-> betype, done |-> ctxDone])
            /\ tasks' = Append(tasks, [betype |-> betype, pc |-> "wait"])
            /\ mret' = [mret EXCEPT ![p] = [be |-> be, err |-> "nil", done |-> ctxDone]]
    /\ mcall' = SetPc(p, "unlock")
    /\ UNCHANGED <<mux, ctxDone, made, OtherThanManager>>

\* defer bm.mux.Unlock(), and the return
GetBackendUnlock(p) ==
    /\ mcall[p].pc = "unlock"
    /\ mux' = FALSE
    /\ mcall' = SetPc(p, "idle")
    /\ UNCHANGED <<active, ctxDone, mret, made, tasks, built, OtherThanManager>>

\* The context of the manager is cancelled.
Cancel ==
    /\ ~ctxDone
    /\ ctxDone' = TRUE
    /\ UNCHANGED <<active, mux, mcall, mret, made, tasks, built, OtherThanManager>>

\* The goroutine k is at the place pc.
SetTask(k, l) == [tasks EXCEPT ![k].pc = l]

\* <-bm.ctx.Done()
CleanupWake(k) ==
    /\ k \in 1..Len(tasks)
    /\ tasks[k].pc = "wait"
    /\ ctxDone
    /\ tasks' = SetTask(k, "lock")
    /\ UNCHANGED <<active, mux, ctxDone, mcall, mret, made, built, OtherThanManager>>

\* bm.mux.Lock() of the goroutine
CleanupLock(k) ==
    /\ k \in 1..Len(tasks)
    /\ tasks[k].pc = "lock"
    /\ CanLockMux(mux)
    /\ mux' = TRUE
    /\ tasks' = SetTask(k, "delete")
    /\ UNCHANGED <<active, ctxDone, mcall, mret, made, built, OtherThanManager>>

\* delete(bm.active, betype)
CleanupDelete(k) ==
    /\ k \in 1..Len(tasks)
    /\ tasks[k].pc = "delete"
    /\ active' = MapDelete(active, tasks[k].betype)
    /\ tasks' = SetTask(k, "unlock")
    /\ UNCHANGED <<mux, ctxDone, mcall, mret, made, built, OtherThanManager>>

\* bm.mux.Unlock() and bm.wg.Done() of the goroutine
CleanupUnlock(k) ==
    /\ k \in 1..Len(tasks)
    /\ tasks[k].pc = "unlock"
    /\ mux' = FALSE
    /\ tasks' = SetTask(k, "done")
    /\ UNCHANGED <<active, ctxDone, mcall, mret, made, built, OtherThanManager>>

\* NewManager(ctx, sm, extIface)
InitManager ==
    /\ InitStore
    /\ ret = NoRet
    /\ InitIdle
    /\ InitNoCreate
    /\ InitNoCompile
    /\ InitNoSecurity
    /\ InitNoStream
    /\ InitNoResize
    /\ InitNoRuntime
    /\ InitNoMounts
    /\ active = <<>>
    /\ mux = FALSE
    /\ ctxDone = FALSE
    /\ mcall = [p \in BackendCallers |-> NoBackendCall]
    /\ mret = [p \in BackendCallers |-> NoBackend]
    /\ made = 0
    /\ tasks = <<>>
    /\ built = <<>>

\* A step of a caller of GetBackend.
CallerStep(p) ==
    \/ \E backendType \in BackendTypes : GetBackendCall(p, backendType)
    \/ GetBackendLock(p)
    \/ GetBackendLookup(p)
    \/ \E err \in {"nil", "ErrBackendInit"} : GetBackendConstruct(p, err)
    \/ GetBackendUnlock(p)

\* A step of a cleanup goroutine.
CleanupStep(k) ==
    \/ CleanupWake(k)
    \/ CleanupLock(k)
    \/ CleanupDelete(k)
    \/ CleanupUnlock(k)

NextManager ==
    \/ \E p \in BackendCallers : CallerStep(p)
    \/ Cancel
    \/ \E k \in TaskIds : CleanupStep(k)

SpecManager == InitManager /\ [][NextManager]_vars

\* A call that was entered goes on and every goroutine is scheduled.
SpecManagerLive ==
    /\ SpecManager
    /\ \A p \in BackendCallers :
          WF_vars(GetBackendLock(p) \/ GetBackendLookup(p)
                  \/ (\E err \in {"nil", "ErrBackendInit"} : GetBackendConstruct(p, err))
                  \/ GetBackendUnlock(p))
    /\ \A k \in TaskIds : WF_vars(CleanupStep(k))

\* --------------------------------------------------- claims on the Store
\* The stored full IDs that have id as a prefix.
Matching(id) == {k \in DOMAIN sandboxes : HasPrefix(k, id)}

C2_GetUnambiguous ==
    \A a \in DOMAIN sandboxes : \A b \in DOMAIN sandboxes \ {a} :
        (ret.op = "Get" /\ Matching(ret.arg) = {a}) =>
            /\ ret.err = "nil"
            /\ ret.sb = sandboxes[a]
            /\ ret.sb.ID # b

C2_Witness ==
    \E a \in DOMAIN sandboxes : \E b \in DOMAIN sandboxes \ {a} :
        /\ ret.op = "Get"
        /\ Matching(ret.arg) = {a}
        /\ Len(ret.arg) < Len(a)
        /\ sandboxes[a].Meta # sandboxes[b].Meta
        /\ ret.sb = sandboxes[a]

\* An Add step of the sequential client.
AddStep == ret'.op = "Add" /\ vars' # vars

\* C3 (as stated): an Add of a present full ID fails with AlreadyExists and
\* changes nothing; every other Add inserts the entity into map and index.
C3_Original ==
    [][AddStep =>
        IF ret'.arg \in DOMAIN sandboxes
        THEN ret'.err = "ErrAlreadyExist" /\ UNCHANGED storeVars
        ELSE /\ ret'.err = "nil"
             /\ sandboxes' = MapPut(sandboxes, ret'.arg, ret'.sb)
             /\ idIndex' = idIndex \cup {ret'.arg}]_vars

\* C3 (amended): an Add of a present full ID fails with AlreadyExists and
\* changes nothing; an Add of an ID the prefix index refuses (empty, or with a
\* space in it) fails with the index's error and changes nothing; every other
\* Add inserts the entity into map and index in the one step; the map holds
\* one entity per full ID.
C3_Add ==
    [][AddStep =>
        /\ IF ret'.arg \in DOMAIN sandboxes
           THEN ret'.err = "ErrAlreadyExist" /\ UNCHANGED storeVars
           ELSE IF ret'.arg = <<>> \/ ContainsSpace(ret'.arg)
           THEN ret'.err \in {"ErrEmptyPrefix", "ErrIllegalChar"} /\ UNCHANGED storeVars
           ELSE /\ ret'.err = "nil"
                /\ sandboxes' = MapPut(sandboxes, ret'.arg, ret'.sb)
                /\ idIndex' = idIndex \cup {ret'.arg}
        /\ \A k \in DOMAIN sandboxes' : sandboxes'[k].ID = k]_vars

C3_Witness ==
    /\ ret.op = "Add"
    /\ ret.err = "ErrAlreadyExist"
    /\ ret.arg \in DOMAIN sandboxes
    /\ sandboxes[ret.arg] # ret.sb
    /\ ret.arg \in idIndex

\* The identifier x resolves: it is not empty and exactly one stored ID has it
\* as a prefix.
Resolves(x) == x # <<>> /\ Cardinality(Matching(x)) = 1

\* C4: a Delete on an identifier that does not resolve reports no error and
\* changes nothing; a Delete on a resolving identifier removes that one entity
\* from map and index and no other; a second Delete of the same identifier
\* changes nothing more.
C4_Delete ==
    [][ret'.op = "Delete" =>
        /\ ret'.err = "nil"
        /\ ~Resolves(ret'.arg) => UNCHANGED storeVars
        /\ Resolves(ret'.arg) =>
             \E a \in Matching(ret'.arg) :
                /\ sandboxes' = MapDelete(sandboxes, a)
                /\ idIndex' = idIndex \ {a}
        /\ StoreDeleteMap(sandboxes', idIndex', ret'.arg) = sandboxes'
        /\ StoreDeleteIndex(sandboxes', idIndex', ret'.arg) = idIndex'
        /\ (ret.op = "Delete" /\ ret.arg = ret'.arg) => UNCHANGED storeVars]_vars

C4_Witness ==
    /\ ret.op = "Delete"
    /\ ret.hit # <<>>
    /\ Len(ret.arg) < Len(ret.hit)
    /\ ret.hit \notin DOMAIN sandboxes
    /\ ret.hit \notin idIndex
    /\ DOMAIN sandboxes # {}

\* ------------------------------------- claims on the Store's concurrent use
\* The caller is inside Add or Delete, between Lock and Unlock.
InWrite(p) == call[p].op \in {"Add", "Delete"} /\ pc[p] \in {"index", "map", "unlock"}

\* The caller is inside Get or List, between RLock and RUnlock.
InRead(p) == call[p].op \in {"Get", "List"} /\ pc[p] \in {"read", "runlock"}

\* The caller has copied the map in List and still holds the read lock.
Listed(p) == call[p].op = "List" /\ pc[p] = "runlock"

\* The stored ID k is a proper prefix of another stored ID.
PrefixOfAnother(k) == \E j \in DOMAIN sandboxes : j # k /\ HasPrefix(j, k)

\* C5 (as stated): what List returns is the store's contents at one point of
\* the call, map and index agree at that point, and every listed entity is the
\* one a Get by its full ID returns at that point.
C5_Original ==
    \A p \in Procs : Listed(p) =>
        /\ res[p].list = {sandboxes[k] : k \in DOMAIN sandboxes}
        /\ DOMAIN sandboxes = idIndex
        /\ \A sb \in res[p].list :
              StoreGet(sandboxes, idIndex, sb.ID) = [sb |-> sb, err |-> "nil"]

\* C5 (amended): what List returns is the store's contents at one point of the
\* call, map and index agree at that point, and every listed entity whose full
\* ID is not a proper prefix of another stored ID is the one a Get by its full
\* ID returns at that point.
C5_ListSnapshot ==
    \A p \in Procs : Listed(p) =>
        /\ res[p].list = {sandboxes[k] : k \in DOMAIN sandboxes}
        /\ DOMAIN sandboxes = idIndex
        /\ \A sb \in res[p].list :
              /\ sb.ID \in idIndex
              /\ ~PrefixOfAnother(sb.ID) =>
                    StoreGet(sandboxes, idIndex, sb.ID) = [sb |-> sb, err |-> "nil"]

C5_Witness ==
    \E p \in Procs : \E q \in Procs \ {p} :
        /\ Listed(p)
        /\ res[p].list # {}
        /\ call[q].op \in {"Add", "Delete"}
        /\ pc[q] = "lock"
        /\ \E sb \in res[p].list : ~PrefixOfAnother(sb.ID)

\* Writers exclude each other and the readers; no reader is inside its call
\* while map and index differ.
MutualExclusion ==
    /\ \A p \in Procs : \A q \in Procs \ {p} :
          InWrite(p) => ~InWrite(q) /\ ~InRead(q)
    /\ \A p \in Procs : InRead(p) => DOMAIN sandboxes = idIndex
    /\ \A p \in Procs : pc[p] = "map" => \A q \in Procs : ~InRead(q)

\* Both callers have returned from an Add of the same full ID.
BothAdded(p, q) ==
    /\ pc[p] = "done" /\ pc[q] = "done"
    /\ call[p].op = "Add" /\ call[q].op = "Add"
    /\ call[p].id = call[q].id

\* One of the two Adds succeeded and the other returned AlreadyExists.
OneSuccess(p, q) ==
    \/ res[p].err = "nil" /\ res[q].err = "ErrAlreadyExist"
    \/ res[q].err = "nil" /\ res[p].err = "ErrAlreadyExist"

\* C6 (as stated): writers exclude each other and all readers, no reader runs
\* between the index update and the map update, and two concurrent Adds of
\* the same full ID end in one success and one AlreadyExists.
C6_Original ==
    /\ MutualExclusion
    /\ \A p \in Procs : \A q \in Procs \ {p} : BothAdded(p, q) => OneSuccess(p, q)

\* C6 (amended): writers exclude each other and all readers, no reader runs
\* between the index update and the map update, and two concurrent Adds of
\* the same full ID, one the index accepts and the store does not hold when
\* they start, end in one success and one AlreadyExists.
C6_Exclusion ==
    /\ MutualExclusion
    /\ \A p \in Procs : \A q \in Procs \ {p} :
          (BothAdded(p, q) /\ call[p].id # <<>> /\ call[p].id \notin store0)
              => OneSuccess(p, q)

C6_Witness ==
    \E p \in Procs : \E q \in Procs \ {p} :
        /\ BothAdded(p, q)
        /\ call[p].id \notin store0
        /\ call[p].meta # call[q].meta
        /\ res[p].err = "nil"
        /\ res[q].err = "ErrAlreadyExist"
        /\ sandboxes[call[p].id].Meta = call[p].meta

\* ------------------------------------------------ claims on CreateContainer
\* The call has reserved its name and not released it: its container is in
\* flight or live.
Holding(p) ==
    /\ cid[p] # <<>>
    /\ cpc[p] # "reserve"
    /\ retErr[p] # "ErrReserveName"
    /\ \A i \in 1..Len(undone[p]) : undone[p][i] # "release"

\* No two in-flight or live containers hold the same name, and the name index
\* maps each held name to its holder's id.
NoSharedName ==
    /\ \A p \in Creators : \A q \in Creators \ {p} :
          (Holding(p) /\ Holding(q)) => cname[p] # cname[q]
    /\ \A p \in Creators : Holding(p) =>
          cname[p] \in DOMAIN nameToKey /\ nameToKey[cname[p]] = cid[p]

\* Both calls have returned and made the same name.
BothReturnedSameName(p, q) ==
    /\ cpc[p] = "returned" /\ cpc[q] = "returned"
    /\ cname[p] # "none"
    /\ cname[p] = cname[q]

OneCreated(p, q) ==
    \/ retErr[p] = "nil" /\ retErr[q] = "ErrReserveName"
    \/ retErr[q] = "nil" /\ retErr[p] = "ErrReserveName"

FailedAfterReserve(p) ==
    /\ cpc[p] = "returned"
    /\ retErr[p] \notin {"nil", "ErrFindSandbox", "ErrSandboxTask", "ErrReserveName"}

\* The name of the call is not reserved for its id, and the container store
\* holds nothing under its id.
NameAndStoreUndone(p) ==
    /\ ~(cname[p] \in DOMAIN nameToKey /\ nameToKey[cname[p]] = cid[p])
    /\ cid[p] \notin DOMAIN containers
    /\ cid[p] \notin containerIndex

C9_Success ==
    \A p \in Creators : (cpc[p] \in {"defers", "returned"} /\ retErr[p] = "nil") =>
        /\ cid[p] \in DOMAIN containers
        /\ containers[cid[p]] = SandboxOf(cid[p], cname[p])
        /\ cid[p] \in containerIndex
        /\ cname[p] \in DOMAIN nameToKey
        /\ nameToKey[cname[p]] = cid[p]
        /\ undone[p] = <<>>
        /\ cleanupErrs[p] = {}
        /\ cid[p] \in rootDirs \cap ios \cap engine \cap checkpoints

C9_Witness ==
    \E p \in Creators : \E q \in Creators \ {p} :
        /\ cpc[p] = "returned"
        /\ retErr[p] = "nil"
        /\ cpc[q] = "returned"
        /\ retErr[q] = "ErrReserveName"
        /\ nameToKey[cname[p]] = cid[p]

\* C10: when both creations have succeeded, the container store lists exactly
\* two entities, with the two ids the calls returned.
C10_TwoCreated ==
    \A p \in Creators : \A q \in Creators \ {p} :
        (cpc[p] = "returned" /\ cpc[q] = "returned"
            /\ retErr[p] = "nil" /\ retErr[q] = "nil") =>
            /\ cid[p] # cid[q]
            /\ Cardinality(StoreList(containers)) = 2
            /\ {c.ID : c \in StoreList(containers)} = {cid[p], cid[q]}
            /\ StoreList(containers)
                  = {SandboxOf(cid[p], cname[p]), SandboxOf(cid[q], cname[q])}
            /\ containerIndex = {cid[p], cid[q]}

C10_Witness ==
    \E p \in Creators : \E q \in Creators \ {p} :
        /\ cpc[p] = "returned" /\ cpc[q] = "returned"
        /\ retErr[p] = "nil" /\ retErr[q] = "nil"
        /\ cname[p] # cname[q]
        /\ Cardinality(StoreList(containers)) = 2

\* --------------------------------------- claims on generateContainerSpec
\* The command part and the args part the claim C11 names, an explicit
\* command being a non-empty one.
ExplicitCommand == Len(compileInput.config.Command.elems) > 0

ArgsPart ==
    IF Len(compileInput.config.Args) > 0 THEN compileInput.config.Args
    ELSE IF ~ExplicitCommand THEN compileInput.imageConfig.Cmd
    ELSE <<>>

\* Whether the call ended as the claim says for a command part.
ArgvIs(commandPart) ==
    IF commandPart \o ArgsPart = <<>>
    THEN specErr = "ErrNoCommand"
    ELSE specErr # "ErrNoCommand" /\ generator.Args = commandPart \o ArgsPart

\* C11 as stated: the argv is (explicit command, else image entrypoint)
\* followed by (explicit args, else the image's default args when no explicit
\* command was given), and the call fails with the no-command error exactly
\* when both parts are empty.
C11_Original ==
    compiled =>
        ArgvIs(IF ExplicitCommand THEN compileInput.config.Command.elems
               ELSE compileInput.imageConfig.Entrypoint)

\* C11: the argv is the command part followed by the args part. The command
\* part is the request's command when that is non-empty, the image entrypoint
\* when the request's command is absent (nil), and empty when the request's
\* command is an empty list that is not nil. The args part is the request's
\* args when non-empty, else the image's default args when the request's
\* command is empty or absent, else empty. The call fails with the
\* no-command error exactly when both parts are empty.
C11_ProcessArgs ==
    compiled =>
        ArgvIs(IF ExplicitCommand THEN compileInput.config.Command.elems
               ELSE IF compileInput.config.Command.nil THEN compileInput.imageConfig.Entrypoint
               ELSE <<>>)

\* An explicit command without args, over an image with entrypoint and cmd.
C11_Witness ==
    /\ compiled
    /\ compileInput.config.Command = SliceOf(<<"/bin/echo">>)
    /\ compileInput.config.Args = <<>>
    /\ compileInput.imageConfig.Entrypoint = <<"/bin/sh">>
    /\ compileInput.imageConfig.Cmd = <<"-c", "true">>
    /\ specErr = "nil"
    /\ generator.Args = <<"/bin/echo">>

\* The names the image declares and the names the request declares.
ImageNames ==
    {SplitN2(compileInput.imageConfig.Env[i])[1] :
        i \in {k \in 1..Len(compileInput.imageConfig.Env) :
                  Len(SplitN2(compileInput.imageConfig.Env[k])) = 2}}

CallerNames == {compileInput.config.Envs[i].Key : i \in 1..Len(compileInput.config.Envs)}

\* The value the image gives a name it declares (its last declaration).
ImageValue(name) ==
    LET at == {i \in 1..Len(compileInput.imageConfig.Env) :
                  /\ Len(SplitN2(compileInput.imageConfig.Env[i])) = 2
                  /\ SplitN2(compileInput.imageConfig.Env[i])[1] = name}
        last == CHOOSE i \in at : \A j \in at : j <= i
    IN  SplitN2(compileInput.imageConfig.Env[last])[2]

\* The value the request gives a name it declares (its last declaration).
CallerValue(name) ==
    LET at == {i \in 1..Len(compileInput.config.Envs) : compileInput.config.Envs[i].Key = name}
        last == CHOOSE i \in at : \A j \in at : j <= i
    IN  compileInput.config.Envs[last].Value

\* The values the environment of the generated spec holds for a name.
EffectiveValues(name) ==
    {SplitN2(generator.Env[i])[2] :
        i \in {k \in 1..Len(generator.Env) :
                  /\ Len(SplitN2(generator.Env[k])) = 2
                  /\ SplitN2(generator.Env[k])[1] = name}}

\* C12: in a generated spec every variable name the image or the request
\* declares has one value: the request's when the request declares the name,
\* the image's otherwise.
C12_EnvLayering ==
    (compiled /\ specErr = "nil") =>
        \A name \in ImageNames \cup CallerNames :
            EffectiveValues(name) =
                {IF name \in CallerNames THEN CallerValue(name) ELSE ImageValue(name)}

\* Image A=1 with request A=2, B=3 gives A=2, B=3.
C12_Witness ==
    /\ compiled
    /\ specErr = "nil"
    /\ compileInput.imageConfig.Env = << <<"A", "=", "1">> >>
    /\ compileInput.config.Envs = <<[Key |-> <<"A">>, Value |-> <<"2">>],
                                    [Key |-> <<"B">>, Value |-> <<"3">>]>>
    /\ EffectiveValues(<<"A">>) = {<<"2">>}
    /\ EffectiveValues(<<"B">>) = {<<"3">>}

\* Every capability setOCICapabilities can add.
AllCapabilities == {CapName("CHOWN"), CapName("KILL"), CapName("NET_ADMIN")}

HasAll(list) == \E i \in 1..Len(list) : list[i] \in {"ALL", "all"}

\* The capabilities a list names one by one.
Singles(list) ==
    {CapName(ToUpper(list[i])) : i \in {k \in 1..Len(list) : list[k] \notin {"ALL", "all"}}}

\* An unprivileged request with capability lists whose spec was generated.
CapabilitiesSet ==
    /\ compiled
    /\ specErr = "nil"
    /\ ~compileInput.config.Privileged
    /\ ~compileInput.config.Capabilities.nil

\* C13: the capabilities of the generated spec are those of the default spec,
\* then all added when the add-list holds "ALL", then all dropped when the
\* drop-list holds "ALL", then the single entries of the add-list added, then
\* the single entries of the drop-list dropped; add-list [ALL] with drop-list
\* [X] leaves every capability but CAP_X.
C13_Capabilities ==
    CapabilitiesSet =>
        LET add == compileInput.config.Capabilities.AddCapabilities
            drop == compileInput.config.Capabilities.DropCapabilities
            s1 == defaultRuntimeSpec.Capabilities \cup (IF HasAll(add) THEN AllCapabilities ELSE {})
            s2 == s1 \ (IF HasAll(drop) THEN AllCapabilities ELSE {})
        IN  /\ generator.Capabilities = (s2 \cup Singles(add)) \ Singles(drop)
            /\ \A x \in {"CHOWN", "kill"} :
                   (add = <<"ALL">> /\ drop = <<x>>) =>
                       generator.Capabilities = AllCapabilities \ {CapName(ToUpper(x))}

\* add-list [ALL], drop-list [CHOWN]
C13_Witness ==
    /\ CapabilitiesSet
    /\ compileInput.config.Capabilities.AddCapabilities = <<"ALL">>
    /\ compileInput.config.Capabilities.DropCapabilities = <<"CHOWN">>
    /\ generator.Capabilities = {CapName("KILL"), CapName("NET_ADMIN")}

\* The mounts generateContainerSpec hands to addOCIBindMounts.
AllMounts == compileInput.extraMounts \o compileInput.config.Mounts

\* The bind mounts of the generator, in the order they were added.
BindMounts == SelectSeq(generator.Mounts, LAMBDA m : m.Type = "bind")

\* The source of a mount after its symbolic links are resolved.
Source(m) == ResolveSymbolicLink(m.HostPath).path

\* The source exists or can be made, resolves, and is in the mount table.
SourceUsable(m) ==
    /\ OsStat(m.HostPath) = "nil" \/ (OsStat(m.HostPath) = "ENOENT" /\ OsMkdirAll(m.HostPath) = "nil")
    /\ ResolveSymbolicLink(m.HostPath).err = "nil"
    /\ LookupMount(Source(m)).err = "nil"

\* The mount the source is on is a shared one.
OnSharedMount(m) ==
    LET o == LookupMount(Source(m)).Optional
    IN  \E k \in 1..Len(o) : o[k] = "shared:" /\ (k = 1 \/ o[k - 1] = " ")

\* The i-th mount is a bidirectional one that addOCIBindMounts comes to.
BidirectionalAt(i) ==
    /\ compiled
    /\ specErr \notin {"ErrNoCommand", "ErrInvalidEnv"}
    /\ AllMounts[i].Propagation = "PROPAGATION_BIDIRECTIONAL"
    /\ SourceUsable(AllMounts[i])
    /\ \A j \in 1..(i - 1) : addOCIBindMount(defaultRuntimeSpec, AllMounts[j]).err = "nil"

ValidHostDevices ==
    {compileInput.hostDevices.devices[i] :
        i \in {k \in 1..Len(compileInput.hostDevices.devices) :
                  ~(compileInput.hostDevices.devices[k].Major = 0
                    /\ compileInput.hostDevices.devices[k].Minor = 0)}}

\* Neither list of the request's capabilities names anything.
NoCapabilitiesAsked ==
    /\ compileInput.config.Capabilities.AddCapabilities = <<>>
    /\ compileInput.config.Capabilities.DropCapabilities = <<>>

SeccompCalled == seccompSpecOpts.err # "not called"

SeccompNone == seccompSpecOpts = Opts(NilOpts)

\* The name of a local profile without the prefix.
Stripped(prof) == SubSeq(prof, Len(profileNamePrefix) + 1, Len(prof))

\* C16 as stated: "" and "unconfined" give no seccomp profile, the two
\* default names give the built-in default profile, a name with the
\* localhost/ prefix gives the profile of the name without the prefix.
C16_Original ==
    SeccompCalled =>
        LET prof == securityContext.SeccompProfilePath
        IN  /\ prof \in {<<>>, unconfinedProfile} => SeccompNone
            /\ prof \in {runtimeDefault, dockerDefault} =>
                  seccompSpecOpts = Opts(SeccompWithDefaultProfile)
            /\ HasPrefix(prof, profileNamePrefix) =>
                  seccompSpecOpts = Opts(SeccompWithProfile(Stripped(prof)))

\* C16: "" and "unconfined" give no seccomp profile; for a container that is
\* not privileged, with seccomp enabled, the two default names give the
\* built-in default profile and a name with the localhost/ prefix gives the
\* profile of the name without the prefix; for a privileged container every
\* name gives no seccomp profile.
C16_SeccompProfile ==
    SeccompCalled =>
        LET prof == securityContext.SeccompProfilePath
            resolved == ~securityContext.Privileged /\ hostSeccompEnabled
        IN  /\ prof \in {<<>>, unconfinedProfile} => SeccompNone
            /\ securityContext.Privileged => SeccompNone
            /\ (resolved /\ prof \in {runtimeDefault, dockerDefault}) =>
                  seccompSpecOpts = Opts(SeccompWithDefaultProfile)
            /\ (resolved /\ HasPrefix(prof, profileNamePrefix)) =>
                  seccompSpecOpts = Opts(SeccompWithProfile(Stripped(prof)))

\* A local profile of an unprivileged container.
C16_Witness ==
    /\ SeccompCalled
    /\ ~securityContext.Privileged
    /\ hostSeccompEnabled
    /\ securityContext.SeccompProfilePath = profileNamePrefix \o <<"p">>
    /\ seccompSpecOpts = Opts(SeccompWithProfile(<<"p">>))
    /\ secPc = "done"

\* A name that is not empty, not "unconfined", not a default name and has
\* not the localhost/ prefix.
Unrecognized(prof) ==
    /\ prof \notin {<<>>, unconfinedProfile, runtimeDefault, dockerDefault}
    /\ ~HasPrefix(prof, profileNamePrefix)

\* A profile other than "unconfined" is asked for.
ProfileAsked(prof) == prof \notin {<<>>, unconfinedProfile}

\* C17 as stated: with seccomp disabled every asked profile other than
\* "unconfined" fails with the not-supported error, and every unrecognized
\* name fails with the invalid-profile error, privileged or not.
C17_Original ==
    SeccompCalled =>
        LET prof == securityContext.SeccompProfilePath
        IN  /\ (~hostSeccompEnabled /\ ProfileAsked(prof)) =>
                  seccompSpecOpts.err = "ErrSeccompNotSupported"
            /\ Unrecognized(prof) => seccompSpecOpts.err = "ErrInvalidSeccompProfile"

\* C17: for a container that is not privileged, with seccomp disabled every
\* asked profile other than "unconfined" fails with the not-supported error,
\* and with seccomp enabled every unrecognized name fails with the
\* invalid-profile error; nothing else fails, and for a privileged container
\* the resolution never fails and gives no profile.
C17_SeccompErrors ==
    SeccompCalled =>
        LET prof == securityContext.SeccompProfilePath
        IN  IF securityContext.Privileged THEN SeccompNone
            ELSE IF ~hostSeccompEnabled /\ ProfileAsked(prof)
                 THEN seccompSpecOpts.err = "ErrSeccompNotSupported"
            ELSE IF hostSeccompEnabled /\ Unrecognized(prof)
                 THEN seccompSpecOpts.err = "ErrInvalidSeccompProfile"
            ELSE seccompSpecOpts.err = "nil"

\* The default profile asked for an unprivileged container with seccomp disabled.
C17_Witness ==
    /\ SeccompCalled
    /\ ~securityContext.Privileged
    /\ ~hostSeccompEnabled
    /\ securityContext.SeccompProfilePath = runtimeDefault
    /\ seccompSpecOpts.err = "ErrSeccompNotSupported"
    /\ secPc = "failed"

\* generateApparmorSpecOpts was called.
ApparmorCalled == apparmorSpecOpts.err # "not called"

ApparmorNone == apparmorSpecOpts = Opts(NilOpts)

ApparmorDefault == apparmorSpecOpts = Opts(ApparmorWithDefaultProfile(appArmorDefaultProfileName))

\* C18 as stated: no profile and not privileged gives the default profile; no
\* profile and privileged, or "unconfined", gives none; with AppArmor
\* disabled a profile other than none and "unconfined" fails.
C18_Original ==
    ApparmorCalled =>
        LET prof == securityContext.ApparmorProfile
        IN  /\ (prof = <<>> /\ ~securityContext.Privileged) => ApparmorDefault
            /\ ((prof = <<>> /\ securityContext.Privileged) \/ prof = unconfinedProfile) =>
                  ApparmorNone
            /\ (~hostApparmorEnabled /\ ProfileAsked(prof)) => apparmorSpecOpts.err # "nil"

\* C18: with AppArmor enabled, no profile and not privileged gives the
\* default profile; with AppArmor disabled no profile gives none; no profile
\* and privileged, or "unconfined", gives none; with AppArmor disabled a
\* profile other than none and "unconfined" fails.
C18_Apparmor ==
    ApparmorCalled =>
        LET prof == securityContext.ApparmorProfile
        IN  /\ (hostApparmorEnabled /\ prof = <<>> /\ ~securityContext.Privileged) => ApparmorDefault
            /\ (~hostApparmorEnabled /\ prof = <<>>) => ApparmorNone
            /\ ((prof = <<>> /\ securityContext.Privileged) \/ prof = unconfinedProfile) =>
                  ApparmorNone
            /\ (~hostApparmorEnabled /\ ProfileAsked(prof)) =>
                  apparmorSpecOpts.err = "ErrApparmorNotSupported"

\* An unprivileged container without a profile gets the default profile.
C18_Witness ==
    /\ ApparmorCalled
    /\ hostApparmorEnabled
    /\ securityContext.ApparmorProfile = <<>>
    /\ ~securityContext.Privileged
    /\ ApparmorDefault
    /\ Len(specOpts) >= 1
    /\ specOpts[1] = ApparmorWithDefaultProfile(appArmorDefaultProfileName)

\* ------------------------------------------------------ claims on Stream
\* The handler of a protocol version; no protocol means the oldest.
HandlerOf(protocol) ==
    CASE protocol = StreamProtocolV4Name -> "streamProtocolV4"
      [] protocol = StreamProtocolV3Name -> "streamProtocolV3"
      [] protocol = StreamProtocolV2Name -> "streamProtocolV2"
      [] protocol \in {StreamProtocolV1Name, ""} -> "streamProtocolV1"
      [] OTHER -> "nil"

KnownProtocols ==
    {StreamProtocolV4Name, StreamProtocolV3Name, StreamProtocolV2Name, StreamProtocolV1Name}

HandshakeFailed == negotiated.err \notin {"nil", "not called"}

\* C19: when the handshake failed Stream returns its error and no handler
\* runs; a handler that runs is the one of the negotiated protocol, the v1
\* handler when the peer named none; and after a handshake that negotiated
\* v4, v3, v2, v1 or nothing, Stream returns with that handler having run
\* with the options of the call.
C19_Stream ==
    /\ HandshakeFailed =>
          /\ streamPc = "returned"
          /\ streamErr = negotiated.err
          /\ streamer = NilStreamer
          /\ streamed = NilStreamer
    /\ streamed # NilStreamer =>
          /\ negotiated.err = "nil"
          /\ streamed.handler = HandlerOf(negotiated.protocol)
    /\ (streamPc = "returned" /\ negotiated.err = "nil"
        /\ negotiated.protocol \in KnownProtocols \cup {""}) =>
          streamed = Streamer(HandlerOf(negotiated.protocol), streamOptions)

\* The peer named no protocol and the v1 handler ran.
C19_Witness ==
    /\ streamPc = "returned"
    /\ executor.protocols = NewSPDYExecutorProtocols
    /\ negotiated = [protocol |-> "", err |-> "nil"]
    /\ streamed.handler = "streamProtocolV1"
    /\ conn = "closed"

\* ---------------------------------------------- claims on handleResizing
\* Both dimensions are strictly positive.
Positive(s) == s.Width > 0 /\ s.Height > 0

\* The number of sizes the goroutine is done with.
Handled == Len(sent) - Len(resize.buf) - (IF resizePc = "check" THEN 1 ELSE 0)

\* C20: the callback has been invoked with exactly the strictly positive
\* ones of the sizes the goroutine is done with, in the order they were
\* sent; when the goroutine has returned it is done with every size sent.
C20_Resize ==
    /\ resized = SelectSeq(SubSeq(sent, 1, Handled), Positive)
    /\ resizePc = "done" => Handled = Len(sent)

\* (0,0), (80,24), (0,5), (100,40) were sent and the channel closed.
C20_Witness ==
    /\ sent = <<TerminalSize(0, 0), TerminalSize(80, 24), TerminalSize(0, 5),
                TerminalSize(100, 40)>>
    /\ resize.closed
    /\ resizePc = "done"
    /\ resized = <<TerminalSize(80, 24), TerminalSize(100, 40)>>



\* The goroutine of handleResizing is running.
TaskRunning == resizePc \in {"recv", "check"}

\* C21: the goroutine has returned only when the channel is closed, whatever
\* sizes it received; and when the channel is closed while the goroutine
\* runs, the goroutine returns in the end, the callback having been invoked
\* with every strictly positive size sent before the close.
C21_Termination ==
    /\ [](resizePc = "done" => resize.closed)
    /\ (resize.closed /\ TaskRunning) ~>
           (resizePc = "done" /\ resized = SelectSeq(sent, Positive))

\* The channel of no capacity was closed after a degenerate and a valid
\* size, and the goroutine has returned.
C21_Witness ==
    /\ resize.cap = 0
    /\ resize.closed
    /\ sent = <<TerminalSize(0, 5), TerminalSize(80, 24)>>
    /\ resized = <<TerminalSize(80, 24)>>
    /\ resizePc = "done"


\* ------------------------------------------------ claims on the root propagation
\* A mount of the request or of the service asks for the propagation p.
HasPropagation(p) == \E i \in 1..Len(AllMounts) : AllMounts[i].Propagation = p

\* The root propagation the modes of the mounts ask for, whatever their order.
ExpectedRootfsPropagation ==
    IF HasPropagation("PROPAGATION_BIDIRECTIONAL") THEN "rshared"
    ELSE IF HasPropagation("PROPAGATION_HOST_TO_CONTAINER") THEN "rslave"
    ELSE defaultRuntimeSpec.RootfsPropagation

\* C27: when every mount of the list was added, the root propagation of the
\* generated spec is rshared if a mount of the list is bidirectional, else
\* rslave if a mount of the list is host-to-container, else the one of the
\* default spec: the order of the mounts plays no part, a host-to-container
\* mount after a bidirectional one leaves rshared, and private or unknown
\* modes leave it as it is.
C27_RootPropagation ==
    (compiled /\ specErr = "nil") => generator.RootfsPropagation = ExpectedRootfsPropagation

C27_Witness ==
    /\ compiled
    /\ specErr = "nil"
    /\ Len(AllMounts) = 2
    /\ AllMounts[1].Propagation = "PROPAGATION_BIDIRECTIONAL"
    /\ AllMounts[2].Propagation = "PROPAGATION_HOST_TO_CONTAINER"
    /\ generator.RootfsPropagation = "rshared"
    /\ BindMounts[2].Options = <<"rbind", "rslave", "rw">>

\* ------------------------------------------------ claims on privileged mounts
\* The generated spec of a privileged request marks neither /sys nor a
\* cgroup mount read-only and restricts no path.
NothingReadOnlyForPrivileged ==
    /\ \A i \in 1..Len(generator.Mounts) :
          (generator.Mounts[i].Destination = "/sys" \/ generator.Mounts[i].Type = "cgroup") =>
              \A k \in 1..Len(generator.Mounts[i].Options) : generator.Mounts[i].Options[k] # "ro"
    /\ generator.ReadonlyPaths = <<>>
    /\ generator.MaskedPaths = <<>>

\* The bind mount made for the i-th mount is read-only exactly if the mount is.
OwnReadonlyFlag(i) ==
    /\ Len(BindMounts) >= i
    /\ (\E k \in 1..Len(BindMounts[i].Options) : BindMounts[i].Options[k] = "ro")
           <=> AllMounts[i].Readonly
    /\ (\E k \in 1..Len(BindMounts[i].Options) : BindMounts[i].Options[k] = "rw")
           <=> ~AllMounts[i].Readonly

\* C28: the generated spec of a privileged request has no "ro" on the /sys
\* mount or on a cgroup mount and has empty lists of read-only and masked
\* paths, also when the request asks for a read-only root; the bind mount of
\* each mount of the request whose container path is not /sys is read-only
\* exactly if that mount is.
C28_PrivilegedMounts ==
    (compiled /\ specErr = "nil" /\ compileInput.config.Privileged) =>
        /\ NothingReadOnlyForPrivileged
        /\ \A i \in 1..Len(AllMounts) : AllMounts[i].ContainerPath # "/sys" => OwnReadonlyFlag(i)

\* The claim as the specification words it: the bind mount of every mount of
\* the request is read-only exactly if that mount is.
C28_Original ==
    (compiled /\ specErr = "nil" /\ compileInput.config.Privileged) =>
        /\ NothingReadOnlyForPrivileged
        /\ \A i \in 1..Len(AllMounts) : OwnReadonlyFlag(i)

C28_Witness ==
    /\ compiled
    /\ specErr = "nil"
    /\ compileInput.config.Privileged
    /\ compileInput.config.ReadonlyRootfs
    /\ generator.RootReadonly
    /\ compileInput.config.Mounts = <<MountAt("/data", "/pr", "PROPAGATION_PRIVATE", TRUE)>>
    /\ BindMounts[1].Options = <<"rbind", "rprivate", "ro">>
    /\ \E i \in 1..Len(generator.Mounts) :
          /\ generator.Mounts[i].Destination = "/sys"
          /\ generator.Mounts[i].Options = <<"nosuid", "noexec", "nodev">>

\* ------------------------------------------------ claims on the privileged branch
\* The devices and the rules of the request, one by one.
RECURSIVE RequestedDevices(_)
RequestedDevices(devs) ==
    IF devs = <<>> THEN <<>>
    ELSE <<[Path |-> Head(devs).ContainerPath,
            dev |-> DeviceFromPath(ResolveSymbolicLink(Head(devs).HostPath).path,
                                   Head(devs).Permissions)]>>
         \o RequestedDevices(Tail(devs))

\* The last device of the request with the container path path.
LastAt(path) ==
    CHOOSE i \in 1..Len(compileInput.config.Devices) :
        /\ compileInput.config.Devices[i].ContainerPath = path
        /\ \A j \in (i + 1)..Len(compileInput.config.Devices) :
               compileInput.config.Devices[j].ContainerPath # path

\* C29: spec generation never returns the error of the privileged guard;
\* for a privileged request the generated spec holds every capability, maps
\* the devices of the host and no device of the request, and allows every
\* device, whatever devices and capabilities the request lists; for an
\* unprivileged request it maps exactly the container paths the request
\* names, each to the last device the request names for it, with one rule
\* for each device of the request, and no device of the host.
C29_PrivilegedBranch ==
    /\ specErr # "ErrNoPrivilegedAllowed"
    /\ (compiled /\ specErr = "nil") =>
          IF compileInput.config.Privileged
          THEN /\ generator.Capabilities = AllCapabilities
               /\ {generator.Devices[k] : k \in 1..Len(generator.Devices)} = ValidHostDevices
               /\ generator.ResourcesDevices = AllowAllDevices
          ELSE /\ {generator.Devices[k].Path : k \in 1..Len(generator.Devices)}
                      = {compileInput.config.Devices[i].ContainerPath :
                            i \in 1..Len(compileInput.config.Devices)}
               /\ \A k \in 1..Len(generator.Devices) :
                     generator.Devices[k].Major
                         = RequestedDevices(compileInput.config.Devices)[
                               LastAt(generator.Devices[k].Path)].dev.Major
               /\ Len(generator.ResourcesDevices)
                      = Len(defaultRuntimeSpec.ResourcesDevices) + Len(compileInput.config.Devices)
               /\ compileInput.config.Capabilities.nil =>
                      generator.Capabilities = defaultRuntimeSpec.Capabilities

C29_Witness ==
    /\ compiled
    /\ specErr = "nil"
    /\ compileInput.config.Privileged
    /\ Len(compileInput.config.Devices) = 1
    /\ compileInput.config.Devices[1].HostPath = "/dev/dangling"
    /\ compileInput.config.Capabilities.DropCapabilities = <<"ALL">>
    /\ compileInput.hostDevices.devices = <<NullDevice, ZeroDevice>>
    /\ generator.Devices = <<NullDevice, ZeroDevice>>
    /\ generator.Capabilities = AllCapabilities

\* ------------------------------------------------ claims on streamRuntime
\* C22: Exec returns no error when the command exits with code 0, a
\* CodeExitError that carries the exit code of the command when the code is
\* not 0, and an error of another kind that carries no code when the command
\* could not be run; the three are told apart by their kind.
C22_Exec ==
    rtCall.method = "Exec" =>
        /\ rtCall.exec.err # "nil" =>
              /\ rtRet.kind \notin {"nil", "CodeExitError"}
              /\ ~rtRet.hasCode
        /\ (rtCall.exec.err = "nil" /\ rtCall.exec.exitCode = 0) => rtRet = NilError
        /\ (rtCall.exec.err = "nil" /\ rtCall.exec.exitCode # 0) =>
              /\ rtRet.kind = "CodeExitError"
              /\ rtRet.hasCode
              /\ rtRet.Code = rtCall.exec.exitCode

C22_Witness ==
    /\ rtCall.method = "Exec"
    /\ rtCall.exec = [exitCode |-> 127, err |-> "nil"]
    /\ rtRet.kind = "CodeExitError"
    /\ rtRet.Code = 127

\* C23: a PortForward call with a port outside 1..65535 returns the
\* invalid-port error and c.portForward is not called; a call with a port
\* inside 1..65535 calls c.portForward once, with that port, and returns
\* what it returns.
C23_PortForward ==
    [][rtCall'.method = "PortForward" =>
          IF rtCall'.port \in 1..65535
          THEN /\ forwarded' = Append(forwarded, rtCall'.port)
               /\ rtRet' = ErrorOf(rtCall'.result)
          ELSE /\ forwarded' = forwarded
               /\ rtRet' = Errorf("invalid port")]_vars

C23_Witness ==
    /\ rtCall.method = "PortForward"
    /\ rtCall.port = 65535
    /\ rtCall.result = "ErrForward"
    /\ forwarded = <<80, 65535>>
    /\ rtRet = ErrorOf("ErrForward")

\* ------------------------------------------------ claims on the rollback
\* The cleanups of CreateContainer, the last registered first.
AllCleanups == <<"ckptdelete", "cntrdelete", "ioclose", "rmdir", "release">>

\* The cleanups of the steps that succeeded before the step that returns
\* the error e, in the reverse of the order of the steps.
ExpectedUndo(e) ==
    CASE e \in {"nil", "ErrFindSandbox", "ErrSandboxTask", "ErrReserveName"} -> <<>>
      [] e \in {"ErrResolveImage", "ErrImageNotFound", "ErrMkdir"} -> SubSeq(AllCleanups, 5, 5)
      [] e \in {"ErrSpec", "ErrIO"} -> SubSeq(AllCleanups, 4, 5)
      [] e \in {"ErrApparmor", "ErrSeccomp", "ErrNewContainer"} -> SubSeq(AllCleanups, 3, 5)
      [] e = "ErrContainerObject" -> SubSeq(AllCleanups, 2, 5)
      [] e = "ErrStoreAdd" -> AllCleanups

\* C24: when a call has returned the error of a step, the cleanups that ran
\* are those of the steps that succeeded before it, in the reverse of the
\* order of the steps, and no other; while the deferred functions run, the
\* cleanups that ran and those still to run make up that list; before a
\* step fails no cleanup runs.
C24_ReverseOrder ==
    \A p \in Creators :
        CASE cpc[p] = "returned" -> undone[p] = ExpectedUndo(retErr[p])
          [] cpc[p] = "defers" ->
                 undone[p] \o (IF retErr[p] # "nil" THEN defers[p] ELSE <<>>)
                     = ExpectedUndo(retErr[p])
          [] OTHER -> undone[p] = <<>>

C24_Witness ==
    \E p \in Creators :
        /\ cpc[p] = "returned"
        /\ retErr[p] = "ErrStoreAdd"
        /\ undone[p] = <<"ckptdelete", "cntrdelete", "ioclose", "rmdir", "release">>
        /\ \E q \in Creators :
              /\ cpc[q] = "returned"
              /\ retErr[q] = "ErrImageNotFound"
              /\ undone[q] = <<"release">>

\* C25: a cleanup that returns an error changes neither the error the call
\* returns, which stays the error of the step that failed, nor the cleanups
\* that follow: each cleanup runs once, and when the call has returned all of
\* them have run.
C25_CleanupFailure ==
    /\ [](\A p \in Creators : cleanupErrs[p] # {} =>
             /\ retErr[p] \notin {"nil", "ErrCleanup"}
             /\ \A i, j \in 1..Len(undone[p]) : i # j => undone[p][i] # undone[p][j]
             /\ cleanupErrs[p] \subseteq {undone[p][i] : i \in 1..Len(undone[p])}
             /\ cpc[p] = "returned" =>
                    {undone[p][i] : i \in 1..Len(undone[p])}
                        = {ExpectedUndo(retErr[p])[i] : i \in 1..Len(ExpectedUndo(retErr[p]))})
    /\ [][\A p \in Creators : cpc[p] = "defers" => retErr'[p] = retErr[p]]_vars

C25_Witness ==
    \E p \in Creators :
        /\ cpc[p] = "returned"
        /\ retErr[p] = "ErrStoreAdd"
        /\ cleanupErrs[p] = {"ckptdelete", "cntrdelete", "ioclose", "rmdir"}
        /\ Len(undone[p]) = 5
        /\ cid[p] \in rootDirs \cap ios \cap engine \cap checkpoints
        /\ ~(cname[p] \in DOMAIN nameToKey)

\* ------------------------------------------------ claims on the early failures
\* The call p holds the reservation of its name.
HoldsName(p) == cname[p] \in DOMAIN nameToKey /\ nameToKey[cname[p]] = cid[p]

\* The errors of the steps up to the reservation.
EarlyErrors == {"ErrFindSandbox", "ErrSandboxTask", "ErrReserveName"}

\* What CreateContainer changes: the name index, the container store, the
\* root directories, the I/O bundles, containerd's containers, the checkpoints.
ServiceState == <<nameToKey, containers, containerIndex, rootDirs, ios, engine, checkpoints>>

\* The call p takes a step.
StepOf(p) == cpc'[p] # cpc[p] \/ defers'[p] # defers[p]

SamePath(i, j) == Clean(specMounts[i].ContainerPath) = Clean(specMounts[j].ContainerPath)

\* C26: the mounts of /etc/hosts, /etc/resolv.conf and /dev/shm are made
\* only for the paths that neither a mount of the request nor a volume mount
\* of the image has, so that no implicit mount and no volume mount among the
\* mounts handed to generateContainerSpec have the same container path.
C26_NoDuplicatePath ==
    mountPc = "done" =>
        /\ \A i \in 1..Len(containerMounts) :
              ~isInCRIMounts(containerMounts[i].ContainerPath, mountConfig.Mounts)
        /\ \A i \in 1..Len(containerMounts) :
              \A j \in (Len(containerMounts) + 1)..Len(specMounts) : ~SamePath(i, j)


\* ------------------------------------------------ claims on the Store's index
\* The index resolves the identifier id to an ID the map holds, or to none.
ResolvesToStored(id) ==
    TruncIndexGet(idIndex, id).err = "nil" => TruncIndexGet(idIndex, id).id \in DOMAIN sandboxes

\* C31: whenever no Add or Delete call is between its lock and its unlock,
\* the IDs of the prefix index are the keys of the map, whatever Add and
\* Delete calls ran before and however they were interleaved, calls the
\* index rejected and Delete calls of identifiers that do not resolve
\* included; and a Get call that the index resolves an ID for returns the
\* entity stored under that ID.
C31_IndexConsistent ==
    /\ [](lock.writer = "none" =>
             /\ idIndex = DOMAIN sandboxes
             /\ \A id \in ConcArgs : ResolvesToStored(id))
    /\ [][\A p \in Procs :
             (call[p].op = "Get" /\ pc[p] = "read" /\ pc'[p] = "runlock"
              /\ TruncIndexGet(idIndex, call[p].id).err = "nil") =>
                 /\ res'[p].err = "nil"
                 /\ res'[p].sb = sandboxes[TruncIndexGet(idIndex, call[p].id).id]]_vars

\* An Add the index rejected and a Delete of an identifier that does not
\* resolve have run.
C31_Witness ==
    \E p \in Procs : \E q \in Procs \ {p} :
        /\ pc[p] = "done"
        /\ pc[q] = "done"
        /\ call[p].op = "Add"
        /\ call[p].id = <<>>
        /\ res[p].err # "nil"
        /\ call[q].op = "Delete"
        /\ call[q].id = <<"a">>
        /\ res[q].hit = <<>>
        /\ store0 = {<<"a">>, <<"a", "b">>}
        /\ idIndex = store0
        /\ DOMAIN sandboxes = store0

\* ------------------------------------------------ claims on the handler of Stream
\* C32: once the negotiation has succeeded, the handler Stream made is not
\* nil, whatever protocols the executor was made with and whatever protocol
\* was negotiated, and Stream never calls stream on a nil handler.
C32_HandlerSet ==
    /\ (negotiated.err = "nil" /\ streamPc \in {"stream", "returned"}) => streamer # NilStreamer
    /\ streamErr # "panic"

\* The backends of type betype the constructors returned while the context
\* was not cancelled.
BuiltBeforeDone(betype) ==
    {i \in 1..Len(built) : built[i].betype = betype /\ ~built[i].done}

\* The caller p got a backend from a call that found the context not
\* cancelled.
GotBackend(p) == mret[p].err = "nil" /\ mret[p].be # 0 /\ ~mret[p].done

\* In this step the call of p ends with an error.
ReturnsError(p) == mret'[p] # mret[p] /\ mret'[p].err # "nil"

\* C33: GetBackend under concurrent calls. While the context is not cancelled
\* each backend type, compared in lower case, is constructed at most once and
\* every call for it returns that one instance; no step taken while the
\* context is not cancelled removes or replaces an entry of the active map; a
\* call that ends with an error (unknown type or failed constructor) adds no
\* entry and starts no cleanup task; once the context is cancelled every
\* entry of the active map is eventually removed.
C33_GetBackend ==
    /\ [](/\ \A betype \in constructors : Cardinality(BuiltBeforeDone(betype)) <= 1
          /\ \A p \in BackendCallers :
                GotBackend(p) => BuiltBeforeDone(ToLower(mcall[p].backendType)) = {mret[p].be})
    /\ [][/\ ~ctxDone' =>
               \A betype \in DOMAIN active :
                   betype \in DOMAIN active' /\ active'[betype] = active[betype]
          /\ \A p \in BackendCallers :
               ReturnsError(p) => active' = active /\ tasks' = tasks /\ built' = built]_vars
    /\ \A betype \in constructors :
          (ctxDone /\ betype \in DOMAIN active) ~> (betype \notin DOMAIN active)

\* Two callers asked for "VXLAN" and "vxlan" and got the same backend, a call
\* for an unregistered type failed, and after the cancellation the cleanup
\* goroutine removed the entry.
C33_Witness ==
    /\ ctxDone
    /\ active = <<>>
    /\ Len(built) = 1
    /\ tasks = <<[betype |-> "vxlan", pc |-> "done"]>>
    /\ mcall["g1"].backendType = "VXLAN" /\ GotBackend("g1") /\ mret["g1"].be = 1
    /\ mcall["g2"].backendType = "bogus" /\ mret["g2"].err = "ErrUnknownBackend"

====
